---- MODULE Spec2Model ----
(***************************************************************************)
(* Model of the chess match state component (UChessGameStateComponent):   *)
(* the state payload, the move history, the refresh round-trip to the     *)
(* external exporter process, square selection and move application.      *)
(*                                                                         *)
(* An FString is a sequence of one-character strings; Fen, StatusText and *)
(* ScoreText are opaque and kept as plain strings.  A JSON object is a    *)
(* record whose domain is the set of fields it carries.                   *)
(***************************************************************************)
EXTENDS Integers, Sequences, FiniteSets, TLC

VARIABLES CurrentState, MoveHistoryUci, begun, lastOp, confirmedMoves,
          selectionBy, syncState, camera, lighting, board, lastClick, mapped

vars == <<CurrentState, MoveHistoryUci, begun, lastOp, confirmedMoves,
          selectionBy, syncState, camera, lighting, board, lastClick, mapped>>

\* The board actor's configuration, the last click on it, and the last
\* coordinate conversion asked of it
boardVars == <<board, lastClick, mapped>>

(***************************************************************************)
(* Bounds of the model.                                                    *)
(***************************************************************************)
MaxHistory == 2

(***************************************************************************)
(* Characters and FString primitives.                                      *)
(***************************************************************************)
LowerChars == <<"a", "b", "c", "d", "e", "f", "g", "h", "i", "j", "k", "l", "m",
                "n", "o", "p", "q", "r", "s", "t", "u", "v", "w", "x", "y", "z">>

UpperChars == <<"A", "B", "C", "D", "E", "F", "G", "H", "I", "J", "K", "L", "M",
                "N", "O", "P", "Q", "R", "S", "T", "U", "V", "W", "X", "Y", "Z">>

DigitChars == <<"0", "1", "2", "3", "4", "5", "6", "7", "8", "9">>

Whitespace == {" ", "\t", "\n", "\r"}

\* The code unit of a character (TCHAR), for the characters the model uses.
CodeUnits ==
    [c \in {DigitChars[i] : i \in 1..Len(DigitChars)} |->
        47 + (CHOOSE i \in 1..Len(DigitChars) : DigitChars[i] = c)]
    @@ [c \in {UpperChars[i] : i \in 1..Len(UpperChars)} |->
        64 + (CHOOSE i \in 1..Len(UpperChars) : UpperChars[i] = c)]
    @@ [c \in {LowerChars[i] : i \in 1..Len(LowerChars)} |->
        96 + (CHOOSE i \in 1..Len(LowerChars) : LowerChars[i] = c)]
    @@ (" " :> 32) @@ ("," :> 44)

Ord(c) == CodeUnits[c]

LowerCase ==
    [c \in {UpperChars[i] : i \in 1..Len(UpperChars)} |->
        LowerChars[CHOOSE i \in 1..Len(UpperChars) : UpperChars[i] = c]]

ToLowerChar(c) == IF c \in DOMAIN LowerCase THEN LowerCase[c] ELSE c

\* FString::ToLower
ToLower(s) == [i \in 1..Len(s) |-> ToLowerChar(s[i])]

RECURSIVE TrimStart(_)
TrimStart(s) ==
    IF s # <<>> /\ Head(s) \in Whitespace THEN TrimStart(Tail(s)) ELSE s

RECURSIVE TrimEnd(_)
TrimEnd(s) ==
    IF s # <<>> /\ s[Len(s)] \in Whitespace THEN TrimEnd(SubSeq(s, 1, Len(s) - 1)) ELSE s

\* FString::TrimStartAndEnd
TrimStartAndEnd(s) == TrimEnd(TrimStart(s))

\* FString::Left(Count)
Left(s, Count) == SubSeq(s, 1, IF Count < Len(s) THEN Count ELSE Len(s))

\* FString::Mid(Start, Count), Start counted from 0
Mid(s, Start, Count) ==
    SubSeq(s, Start + 1, IF Start + Count < Len(s) THEN Start + Count ELSE Len(s))

\* FString::StartsWith(Prefix, ESearchCase::CaseSensitive); an empty prefix never matches
StartsWith(s, Prefix) ==
    /\ Len(Prefix) > 0
    /\ Len(s) >= Len(Prefix)
    /\ SubSeq(s, 1, Len(Prefix)) = Prefix

\* FString operator== compares ignoring case
EqualsIgnoreCase(a, b) == ToLower(a) = ToLower(b)

\* FString operator< : lexicographic on the lower-cased code units
RECURSIVE StrLess(_, _)
StrLess(a, b) ==
    IF b = <<>> THEN FALSE
    ELSE IF a = <<>> THEN TRUE
    ELSE IF Ord(ToLowerChar(Head(a))) < Ord(ToLowerChar(Head(b))) THEN TRUE
    ELSE IF Ord(ToLowerChar(Head(a))) > Ord(ToLowerChar(Head(b))) THEN FALSE
    ELSE StrLess(Tail(a), Tail(b))

\* TArray<FString>::Contains
Contains(arr, s) == \E i \in 1..Len(arr) : EqualsIgnoreCase(arr[i], s)

\* TArray<FString>::AddUnique
AddUnique(arr, s) == IF Contains(arr, s) THEN arr ELSE Append(arr, s)

RECURSIVE InsertSorted(_, _)
InsertSorted(arr, s) ==
    IF arr = <<>> THEN <<s>>
    ELSE IF StrLess(s, Head(arr)) THEN <<s>> \o arr
    ELSE <<Head(arr)>> \o InsertSorted(Tail(arr), s)

\* TArray<FString>::Sort with operator<
RECURSIVE Sort(_)
Sort(arr) == IF arr = <<>> THEN <<>> ELSE InsertSorted(Sort(Tail(arr)), Head(arr))

(***************************************************************************)
(* The state payload and the component's configuration.                    *)
(***************************************************************************)
\* FChessStatePayload as default-constructed
DefaultPayload ==
    [Fen |-> "", Turn |-> <<>>, SelectedSquare |-> <<>>, LegalTargets |-> <<>>,
     bIsGameOver |-> FALSE, StatusText |-> "", ScoreText |-> "",
     LegalMovesUci |-> <<>>]

StartFen == "rnbqkbnr/pppppppp/8/8/8/8/PPPPPPPP/RNBQKBNR w KQkq - 0 1"

\* IsSquareValid checking the length only
IsSquareValid_LengthOnly(Square) == Len(Square) = 2

\* UChessGameStateComponent::IsSquareValid
IsSquareValid(Square) ==
    /\ Len(Square) = 2
    /\ Ord(Square[1]) >= Ord("a") /\ Ord(Square[1]) <= Ord("h")
    /\ Ord(Square[2]) >= Ord("1") /\ Ord(Square[2]) <= Ord("8")

\* NormalizeSquare trimming without lower-casing
NormalizeSquare_TrimOnly(Square) == TrimStartAndEnd(Square)

\* UChessGameStateComponent::NormalizeSquare
NormalizeSquare(Square) == TrimStartAndEnd(ToLower(Square))

\* JoinCsv putting the comma after every move
RECURSIVE JoinCsv_TrailingComma(_, _)
JoinCsv_TrailingComma(moves, Index) ==
    IF Index > Len(moves) THEN <<>>
    ELSE moves[Index] \o <<",">> \o JoinCsv_TrailingComma(moves, Index + 1)

RECURSIVE JoinCsv(_, _)
JoinCsv(moves, Index) ==
    IF Index > Len(moves) THEN <<>>
    ELSE (IF Index > 1 THEN <<",">> ELSE <<>>) \o moves[Index] \o JoinCsv(moves, Index + 1)

\* UChessGameStateComponent::BuildMovesCsv
BuildMovesCsv(history) == JoinCsv(history, 1)

(***************************************************************************)
(* JSON payload parsing.                                                   *)
(***************************************************************************)
Has(obj, field) == field \in DOMAIN obj

\* An array item is a JSON string or a JSON null; TryGetString fails on null
JsonString(chars) == [type |-> "String", value |-> chars]

JsonNull == [type |-> "Null"]

RECURSIVE StringItems(_)
StringItems(items) ==
    IF items = <<>> THEN <<>>
    ELSE IF Head(items).type = "String"
         THEN <<Head(items).value>> \o StringItems(Tail(items))
         ELSE StringItems(Tail(items))

\* ReadRequired treating score_text as an optional field
ReadRequired_ScoreOptional(RootObj, OutState) ==
    IF ~Has(RootObj, "fen") THEN [ok |-> FALSE, state |-> OutState]
    ELSE LET s1 == [OutState EXCEPT !.Fen = RootObj.fen] IN
    IF ~Has(RootObj, "turn") THEN [ok |-> FALSE, state |-> s1]
    ELSE LET s2 == [s1 EXCEPT !.Turn = RootObj.turn] IN
    IF ~Has(RootObj, "is_game_over") THEN [ok |-> FALSE, state |-> s2]
    ELSE LET s3 == [s2 EXCEPT !.bIsGameOver = RootObj.is_game_over] IN
    IF ~Has(RootObj, "status_text") THEN [ok |-> FALSE, state |-> s3]
    ELSE LET s4 == [s3 EXCEPT !.StatusText = RootObj.status_text] IN
    IF ~Has(RootObj, "score_text") THEN [ok |-> TRUE, state |-> s4]
    ELSE [ok |-> TRUE, state |-> [s4 EXCEPT !.ScoreText = RootObj.score_text]]

\* The required fields in the order ParsePayloadJson reads them; each one read
\* is written to OutState before the next is tried.
ReadRequired(RootObj, OutState) ==
    IF ~Has(RootObj, "fen") THEN [ok |-> FALSE, state |-> OutState]
    ELSE LET s1 == [OutState EXCEPT !.Fen = RootObj.fen] IN
    IF ~Has(RootObj, "turn") THEN [ok |-> FALSE, state |-> s1]
    ELSE LET s2 == [s1 EXCEPT !.Turn = RootObj.turn] IN
    IF ~Has(RootObj, "is_game_over") THEN [ok |-> FALSE, state |-> s2]
    ELSE LET s3 == [s2 EXCEPT !.bIsGameOver = RootObj.is_game_over] IN
    IF ~Has(RootObj, "status_text") THEN [ok |-> FALSE, state |-> s3]
    ELSE LET s4 == [s3 EXCEPT !.StatusText = RootObj.status_text] IN
    IF ~Has(RootObj, "score_text") THEN [ok |-> FALSE, state |-> s4]
    ELSE [ok |-> TRUE, state |-> [s4 EXCEPT !.ScoreText = RootObj.score_text]]

ReadOptional(RootObj, OutState) ==
    LET s1 == IF Has(RootObj, "selected_square")
              THEN [OutState EXCEPT !.SelectedSquare = RootObj.selected_square]
              ELSE OutState
        s2 == IF Has(RootObj, "legal_targets")
              THEN [s1 EXCEPT !.LegalTargets = StringItems(RootObj.legal_targets)]
              ELSE s1
    IN  IF Has(RootObj, "legal_moves_uci")
        THEN [s2 EXCEPT !.LegalMovesUci = StringItems(RootObj.legal_moves_uci)]
        ELSE s2

\* UChessGameStateComponent::ParsePayloadJson.  Json is either unparsable text
\* or a JSON object.
ParsePayloadJson(Json, OutState) ==
    IF Json = [text |-> "unparsable"]
    THEN [ok |-> FALSE, state |-> OutState, error |-> "Failed to parse JSON payload."]
    ELSE LET req == ReadRequired(Json, OutState) IN
         IF ~req.ok
         THEN [ok |-> FALSE, state |-> req.state,
               error |-> "Payload is missing one or more required fields."]
         ELSE [ok |-> TRUE, state |-> ReadOptional(Json, req.state), error |-> ""]

(***************************************************************************)
(* The environment: what callers pass and what the exporter answers.       *)
(***************************************************************************)
e2e4 == <<"e", "2", "e", "4">>

e2e3 == <<"e", "2", "e", "3">>

b1c3 == <<"b", "1", "c", "3">>

e7e8n == <<"e", "7", "e", "8", "n">>

e7e8q == <<"e", "7", "e", "8", "q">>

e7d8r == <<"e", "7", "d", "8", "r">>

e7d8b == <<"e", "7", "d", "8", "b">>

White == <<"w", "h", "i", "t", "e">>

Black == <<"b", "l", "a", "c", "k">>

\* The squares callers pass: valid ones in several spellings, and malformed ones
SquareInputs ==
    { <<"e", "2">>, <<"E", "2">>, <<" ", "e", "2", " ">>, <<"b", "1">>, <<"a", "1">>,
      <<"e", "4">>, <<"e", "7">>, <<"e", "8">>, <<"D", "8">>,
      <<>>, <<"e", "9">>, <<"i", "1">>, <<"e", "2", "e">> }

JsonStrings(arr) == [i \in 1..Len(arr) |-> JsonString(arr[i])]

DocA ==
    [fen |-> "fenA", turn |-> White, is_game_over |-> FALSE,
     status_text |-> "White to move", score_text |-> "0.0",
     legal_moves_uci |-> JsonStrings(<<e2e4, e2e3, b1c3>>)]

DocB ==
    [fen |-> "fenB", turn |-> Black, is_game_over |-> FALSE,
     status_text |-> "Black to move", score_text |-> "+1.0",
     legal_moves_uci |-> JsonStrings(<<e7e8n, e7e8q, e7d8r, e7d8b>>)]

DocC ==
    [fen |-> "fenC", turn |-> White, is_game_over |-> TRUE,
     status_text |-> "Checkmate", score_text |-> "#",
     legal_moves_uci |-> <<JsonNull>>]

\* DocA with the game-over flag set: the flag is the exporter's to decide
DocOver ==
    [fen |-> "fenA", turn |-> White, is_game_over |-> TRUE,
     status_text |-> "White to move", score_text |-> "0.0",
     legal_moves_uci |-> JsonStrings(<<e2e4, e2e3, b1c3>>)]

Without(doc, field) == [f \in DOMAIN doc \ {field} |-> doc[f]]

With(doc, extra) ==
    [f \in DOMAIN doc \cup DOMAIN extra |-> IF f \in DOMAIN extra THEN extra[f] ELSE doc[f]]

RequiredFields == {"fen", "turn", "is_game_over", "status_text", "score_text"}

\* The documents an unconstrained exporter may write: complete ones, ones
\* lacking one field, and ones carrying selection fields
FreeDocs ==
    { DocA, DocB, DocC, DocOver }
    \cup { Without(DocA, f) : f \in RequiredFields \cup {"legal_moves_uci"} }
    \cup { With(DocA, [selected_square |-> <<"e", "2">>,
                       legal_targets |-> JsonStrings(<<<<"e", "3">>, <<"e", "4">>>>)]),
           With(DocB, [selected_square |-> <<"e", "7">>]),
           With(DocB, [selected_square |-> <<"E", "7">>,
                       legal_targets |-> JsonStrings(<<<<"d", "8">>, <<"e", "8">>>>)]),
           With(DocC, [legal_targets |-> <<JsonString(<<"e", "4">>), JsonNull>>]) }

Failures == { [kind |-> "ScriptMissing"], [kind |-> "ExecFailed"], [kind |-> "ReadFailed"],
              [kind |-> "Output", json |-> [text |-> "unparsable"]] }

FreeOutcomes == Failures \cup { [kind |-> "Output", json |-> d] : d \in FreeDocs }

(***************************************************************************)
(* A deterministic exporter: it replays the requested moves from the       *)
(* starting position and answers for the position reached.  The position   *)
(* after an even number of moves has White's moves, after an odd number    *)
(* Black's; a move that is not legal where it is played makes the process  *)
(* exit with an error.                                                     *)
(***************************************************************************)
RECURSIVE SplitCsv(_, _)
SplitCsv(chars, current) ==
    IF chars = <<>> THEN (IF current = <<>> THEN <<>> ELSE <<current>>)
    ELSE IF Head(chars) = "," THEN <<current>> \o SplitCsv(Tail(chars), <<>>)
    ELSE SplitCsv(Tail(chars), Append(current, Head(chars)))

RECURSIVE Str(_)
Str(chars) == IF chars = <<>> THEN "" ELSE Head(chars) \o Str(Tail(chars))

ReplayMoves(played) ==
    IF Len(played) % 2 = 0 THEN <<e2e4, e2e3, b1c3>>
    ELSE <<e7e8n, e7e8q, e7d8r, e7d8b>>

ReplayLegal(played) ==
    \A i \in 1..Len(played) :
        \E j \in 1..Len(ReplayMoves(SubSeq(played, 1, i - 1))) :
            ReplayMoves(SubSeq(played, 1, i - 1))[j] = played[i]

ReplayFen(fen, played) ==
    IF played = <<>> THEN fen ELSE fen \o " then " \o Str(BuildMovesCsv(played))

ReplayAnswer(request) ==
    LET played == SplitCsv(request.moves, <<>>) IN
    IF ~ReplayLegal(played) THEN [kind |-> "ExecFailed"]
    ELSE [kind |-> "Output",
          json |-> [fen |-> ReplayFen(request.fen, played),
                    turn |-> IF Len(played) % 2 = 0 THEN White ELSE Black,
                    is_game_over |-> FALSE,
                    status_text |-> IF Len(played) % 2 = 0 THEN "White to move"
                                    ELSE "Black to move",
                    score_text |-> "0.0",
                    legal_moves_uci |-> JsonStrings(ReplayMoves(played))]]

DetOutcomes == Failures \cup { [kind |-> "Replay"] }

\* What the exporter process does with a request
Exporter(outcome, request) ==
    IF outcome.kind = "Replay" THEN ReplayAnswer(request) ELSE outcome

(***************************************************************************)
(* The component's operations, as functions from the state before the     *)
(* call (and what the exporter process does) to the call's effects.       *)
(***************************************************************************)
\* What observers read when OnStateChanged.Broadcast() runs
Snapshot(state, history) == [state |-> state, history |-> history]

\* The arguments the exporter is started with
Request(history) == [fen |-> StartFen, moves |-> BuildMovesCsv(history)]

\* RefreshState parsing straight into CurrentState instead of a fresh NextState
RefreshState_ParseInPlace(state, history, outcome) ==
    LET answer == Exporter(outcome, Request(history)) IN
    IF answer.kind = "ScriptMissing"
    THEN [ok |-> FALSE, state |-> state, error |-> "Export script not found",
          answer |-> answer, requests |-> <<>>, notified |-> <<>>]
    ELSE IF answer.kind = "ExecFailed"
    THEN [ok |-> FALSE, state |-> state, error |-> "Failed to run exporter",
          answer |-> answer, requests |-> <<Request(history)>>, notified |-> <<>>]
    ELSE IF answer.kind = "ReadFailed"
    THEN [ok |-> FALSE, state |-> state, error |-> "Failed to read output JSON",
          answer |-> answer, requests |-> <<Request(history)>>, notified |-> <<>>]
    ELSE LET parsed == ParsePayloadJson(answer.json, state) IN
         IF ~parsed.ok
         THEN [ok |-> FALSE, state |-> parsed.state, error |-> parsed.error,
               answer |-> answer, requests |-> <<Request(history)>>, notified |-> <<>>]
         ELSE [ok |-> TRUE, state |-> parsed.state, error |-> "",
               answer |-> answer, requests |-> <<Request(history)>>,
               notified |-> <<Snapshot(parsed.state, history)>>]

\* RefreshState broadcasting before it assigns CurrentState
RefreshState_BroadcastFirst(state, history, outcome) ==
    LET answer == Exporter(outcome, Request(history)) IN
    IF answer.kind = "ScriptMissing"
    THEN [ok |-> FALSE, state |-> state, error |-> "Export script not found",
          answer |-> answer, requests |-> <<>>, notified |-> <<>>]
    ELSE IF answer.kind = "ExecFailed"
    THEN [ok |-> FALSE, state |-> state, error |-> "Failed to run exporter",
          answer |-> answer, requests |-> <<Request(history)>>, notified |-> <<>>]
    ELSE IF answer.kind = "ReadFailed"
    THEN [ok |-> FALSE, state |-> state, error |-> "Failed to read output JSON",
          answer |-> answer, requests |-> <<Request(history)>>, notified |-> <<>>]
    ELSE LET parsed == ParsePayloadJson(answer.json, DefaultPayload) IN
         IF ~parsed.ok
         THEN [ok |-> FALSE, state |-> state, error |-> parsed.error,
               answer |-> answer, requests |-> <<Request(history)>>, notified |-> <<>>]
         ELSE [ok |-> TRUE, state |-> parsed.state, error |-> "",
               answer |-> answer, requests |-> <<Request(history)>>,
               notified |-> <<Snapshot(state, history)>>]

\* RefreshState starting the exporter a second time when the first run failed
RefreshState_RetryOnce(state, history, outcome) ==
    LET answer == Exporter(outcome, Request(history)) IN
    IF answer.kind = "ScriptMissing"
    THEN [ok |-> FALSE, state |-> state, error |-> "Export script not found",
          answer |-> answer, requests |-> <<>>, notified |-> <<>>]
    ELSE IF answer.kind = "ExecFailed"
    THEN [ok |-> FALSE, state |-> state, error |-> "Failed to run exporter",
          answer |-> answer, requests |-> <<Request(history), Request(history)>>,
          notified |-> <<>>]
    ELSE IF answer.kind = "ReadFailed"
    THEN [ok |-> FALSE, state |-> state, error |-> "Failed to read output JSON",
          answer |-> answer, requests |-> <<Request(history)>>, notified |-> <<>>]
    ELSE LET parsed == ParsePayloadJson(answer.json, DefaultPayload) IN
         IF ~parsed.ok
         THEN [ok |-> FALSE, state |-> state, error |-> parsed.error,
               answer |-> answer, requests |-> <<Request(history)>>, notified |-> <<>>]
         ELSE [ok |-> TRUE, state |-> parsed.state, error |-> "",
               answer |-> answer, requests |-> <<Request(history)>>,
               notified |-> <<Snapshot(parsed.state, history)>>]

\* UChessGameStateComponent::RefreshState.  outcome is what the environment
\* does: the script is missing, the process fails, its output file cannot be
\* read, or the file holds some text.
RefreshState(state, history, outcome) ==
    LET answer == Exporter(outcome, Request(history)) IN
    IF answer.kind = "ScriptMissing"
    THEN [ok |-> FALSE, state |-> state, error |-> "Export script not found",
          answer |-> answer, requests |-> <<>>, notified |-> <<>>]
    ELSE IF answer.kind = "ExecFailed"
    THEN [ok |-> FALSE, state |-> state, error |-> "Failed to run exporter",
          answer |-> answer, requests |-> <<Request(history)>>, notified |-> <<>>]
    ELSE IF answer.kind = "ReadFailed"
    THEN [ok |-> FALSE, state |-> state, error |-> "Failed to read output JSON",
          answer |-> answer, requests |-> <<Request(history)>>, notified |-> <<>>]
    ELSE LET parsed == ParsePayloadJson(answer.json, DefaultPayload) IN
         IF ~parsed.ok
         THEN [ok |-> FALSE, state |-> state, error |-> parsed.error,
               answer |-> answer, requests |-> <<Request(history)>>, notified |-> <<>>]
         ELSE [ok |-> TRUE, state |-> parsed.state, error |-> "",
               answer |-> answer, requests |-> <<Request(history)>>,
               notified |-> <<Snapshot(parsed.state, history)>>]

\* ResetMatch that refreshes before it clears the history
ResetMatch_RefreshFirst(state, history, outcome) ==
    LET r == RefreshState(state, history, outcome)
    IN  [state |-> r.state, history |-> <<>>, refreshOk |-> r.ok,
         answer |-> r.answer, requests |-> r.requests, notified |-> r.notified]

\* UChessGameStateComponent::ResetMatch
ResetMatch(state, history, outcome) ==
    LET cleared == <<>>
        r == RefreshState(state, cleared, outcome)
    IN  [state |-> r.state, history |-> cleared, refreshOk |-> r.ok,
         answer |-> r.answer, requests |-> r.requests, notified |-> r.notified]

\* CollectTargets without the comparison of the origin square
RECURSIVE CollectTargets_AnyOrigin(_, _, _)
CollectTargets_AnyOrigin(moves, Normalized, NextTargets) ==
    IF moves = <<>> THEN NextTargets
    ELSE LET Uci == Head(moves) IN
         IF Len(Uci) < 4 THEN CollectTargets_AnyOrigin(Tail(moves), Normalized, NextTargets)
         ELSE CollectTargets_AnyOrigin(Tail(moves), Normalized,
                                       AddUnique(NextTargets, Mid(Uci, 2, 2)))

RECURSIVE CollectTargets(_, _, _)
CollectTargets(moves, Normalized, NextTargets) ==
    IF moves = <<>> THEN NextTargets
    ELSE LET Uci == Head(moves) IN
         IF Len(Uci) < 4 THEN CollectTargets(Tail(moves), Normalized, NextTargets)
         ELSE IF Left(Uci, 2) = Normalized
         THEN CollectTargets(Tail(moves), Normalized, AddUnique(NextTargets, Mid(Uci, 2, 2)))
         ELSE CollectTargets(Tail(moves), Normalized, NextTargets)

\* SelectSquare that forgets to clear SelectedSquare when nothing is reachable
SelectSquare_KeepsSquare(state, history, Square) ==
    LET Normalized == NormalizeSquare(Square) IN
    IF ~IsSquareValid(Normalized)
    THEN [ok |-> FALSE, state |-> state, notified |-> <<>>]
    ELSE LET NextTargets == CollectTargets(state.LegalMovesUci, Normalized, <<>>) IN
         IF NextTargets = <<>>
         THEN LET cleared == [state EXCEPT !.LegalTargets = <<>>]
              IN  [ok |-> FALSE, state |-> cleared,
                   notified |-> <<Snapshot(cleared, history)>>]
         ELSE LET selected == [state EXCEPT !.SelectedSquare = Normalized,
                                            !.LegalTargets = Sort(NextTargets)]
              IN  [ok |-> TRUE, state |-> selected,
                   notified |-> <<Snapshot(selected, history)>>]

\* SelectSquare without the sort of the collected targets
SelectSquare_Unsorted(state, history, Square) ==
    LET Normalized == NormalizeSquare(Square) IN
    IF ~IsSquareValid(Normalized)
    THEN [ok |-> FALSE, state |-> state, notified |-> <<>>]
    ELSE LET NextTargets == CollectTargets(state.LegalMovesUci, Normalized, <<>>) IN
         IF NextTargets = <<>>
         THEN LET cleared == [state EXCEPT !.SelectedSquare = <<>>, !.LegalTargets = <<>>]
              IN  [ok |-> FALSE, state |-> cleared,
                   notified |-> <<Snapshot(cleared, history)>>]
         ELSE LET selected == [state EXCEPT !.SelectedSquare = Normalized,
                                            !.LegalTargets = NextTargets]
              IN  [ok |-> TRUE, state |-> selected,
                   notified |-> <<Snapshot(selected, history)>>]

\* SelectSquare resetting the whole payload when nothing is reachable
SelectSquare_ResetsPayload(state, history, Square) ==
    LET Normalized == NormalizeSquare(Square) IN
    IF ~IsSquareValid(Normalized)
    THEN [ok |-> FALSE, state |-> state, notified |-> <<>>]
    ELSE LET NextTargets == CollectTargets(state.LegalMovesUci, Normalized, <<>>) IN
         IF NextTargets = <<>>
         THEN LET cleared == DefaultPayload
              IN  [ok |-> FALSE, state |-> cleared,
                   notified |-> <<Snapshot(cleared, history)>>]
         ELSE LET selected == [state EXCEPT !.SelectedSquare = Normalized,
                                            !.LegalTargets = Sort(NextTargets)]
              IN  [ok |-> TRUE, state |-> selected,
                   notified |-> <<Snapshot(selected, history)>>]

\* SelectSquare deselecting a square that is selected already
SelectSquare_Toggle(state, history, Square) ==
    LET Normalized == NormalizeSquare(Square) IN
    IF ~IsSquareValid(Normalized)
    THEN [ok |-> FALSE, state |-> state, notified |-> <<>>]
    ELSE LET NextTargets == IF Normalized = state.SelectedSquare THEN <<>>
                            ELSE CollectTargets(state.LegalMovesUci, Normalized, <<>>) IN
         IF NextTargets = <<>>
         THEN LET cleared == [state EXCEPT !.SelectedSquare = <<>>, !.LegalTargets = <<>>]
              IN  [ok |-> FALSE, state |-> cleared,
                   notified |-> <<Snapshot(cleared, history)>>]
         ELSE LET selected == [state EXCEPT !.SelectedSquare = Normalized,
                                            !.LegalTargets = Sort(NextTargets)]
              IN  [ok |-> TRUE, state |-> selected,
                   notified |-> <<Snapshot(selected, history)>>]

\* UChessGameStateComponent::SelectSquare
SelectSquare(state, history, Square) ==
    LET Normalized == NormalizeSquare(Square) IN
    IF ~IsSquareValid(Normalized)
    THEN [ok |-> FALSE, state |-> state, notified |-> <<>>]
    ELSE LET NextTargets == CollectTargets(state.LegalMovesUci, Normalized, <<>>) IN
         IF NextTargets = <<>>
         THEN LET cleared == [state EXCEPT !.SelectedSquare = <<>>, !.LegalTargets = <<>>]
              IN  [ok |-> FALSE, state |-> cleared,
                   notified |-> <<Snapshot(cleared, history)>>]
         ELSE LET selected == [state EXCEPT !.SelectedSquare = Normalized,
                                            !.LegalTargets = Sort(NextTargets)]
              IN  [ok |-> TRUE, state |-> selected,
                   notified |-> <<Snapshot(selected, history)>>]

\* The loop without the queen promotion branch: the first match wins
RECURSIVE PickMove_FirstMatch(_, _, _)
PickMove_FirstMatch(moves, Prefix, SelectedMove) ==
    IF moves = <<>> THEN SelectedMove
    ELSE IF StartsWith(Head(moves), Prefix) THEN Head(moves)
    ELSE PickMove_FirstMatch(Tail(moves), Prefix, SelectedMove)

\* The loop matching on the origin square only, whatever the target
RECURSIVE PickMove_OriginOnly(_, _, _)
PickMove_OriginOnly(moves, Prefix, SelectedMove) ==
    IF moves = <<>> THEN SelectedMove
    ELSE LET Uci == Head(moves) IN
         IF StartsWith(Uci, Left(Prefix, 2))
         THEN IF Len(Uci) = 5 /\ Uci[5] = "q" THEN Uci
              ELSE IF SelectedMove = <<>> THEN PickMove_OriginOnly(Tail(moves), Prefix, Uci)
              ELSE PickMove_OriginOnly(Tail(moves), Prefix, SelectedMove)
         ELSE PickMove_OriginOnly(Tail(moves), Prefix, SelectedMove)

\* The loop of TryMoveSelectedTo over LegalMovesUci; <<>> when nothing matches
RECURSIVE PickMove(_, _, _)
PickMove(moves, Prefix, SelectedMove) ==
    IF moves = <<>> THEN SelectedMove
    ELSE LET Uci == Head(moves) IN
         IF StartsWith(Uci, Prefix)
         THEN IF Len(Uci) = 5 /\ Uci[5] = "q" THEN Uci
              ELSE IF SelectedMove = <<>> THEN PickMove(Tail(moves), Prefix, Uci)
              ELSE PickMove(Tail(moves), Prefix, SelectedMove)
         ELSE PickMove(Tail(moves), Prefix, SelectedMove)

\* TryMoveSelectedTo without the Pop after a failed refresh
TryMoveSelectedTo_NoPop(state, history, TargetSquare, outcome) ==
    LET From == NormalizeSquare(state.SelectedSquare)
        To == NormalizeSquare(TargetSquare)
        rejected(why) == [ok |-> FALSE, state |-> state, history |-> history,
                          error |-> why, selectedMove |-> <<>>, refreshed |-> "none",
                          answer |-> [kind |-> "None"], requests |-> <<>>, notified |-> <<>>]
    IN
    IF ~IsSquareValid(From) THEN rejected("No selected square.")
    ELSE IF ~IsSquareValid(To) THEN rejected("Target square is invalid.")
    ELSE LET SelectedMove == PickMove(state.LegalMovesUci, From \o To, <<>>) IN
         IF SelectedMove = <<>> THEN rejected("Illegal move")
         ELSE LET appended == Append(history, SelectedMove)
                  r == RefreshState(state, appended, outcome)
              IN  IF ~r.ok
                  THEN [ok |-> FALSE, state |-> r.state,
                        history |-> appended,
                        error |-> r.error, selectedMove |-> SelectedMove,
                        refreshed |-> "failed", answer |-> r.answer,
                        requests |-> r.requests, notified |-> r.notified]
                  ELSE [ok |-> TRUE, state |-> r.state, history |-> appended,
                        error |-> "", selectedMove |-> SelectedMove,
                        refreshed |-> "ok", answer |-> r.answer,
                        requests |-> r.requests, notified |-> r.notified]

\* TryMoveSelectedTo removing the oldest move instead of the appended one
TryMoveSelectedTo_PopFront(state, history, TargetSquare, outcome) ==
    LET From == NormalizeSquare(state.SelectedSquare)
        To == NormalizeSquare(TargetSquare)
        rejected(why) == [ok |-> FALSE, state |-> state, history |-> history,
                          error |-> why, selectedMove |-> <<>>, refreshed |-> "none",
                          answer |-> [kind |-> "None"], requests |-> <<>>, notified |-> <<>>]
    IN
    IF ~IsSquareValid(From) THEN rejected("No selected square.")
    ELSE IF ~IsSquareValid(To) THEN rejected("Target square is invalid.")
    ELSE LET SelectedMove == PickMove(state.LegalMovesUci, From \o To, <<>>) IN
         IF SelectedMove = <<>> THEN rejected("Illegal move")
         ELSE LET appended == Append(history, SelectedMove)
                  r == RefreshState(state, appended, outcome)
              IN  IF ~r.ok
                  THEN [ok |-> FALSE, state |-> r.state,
                        history |-> Tail(appended),
                        error |-> r.error, selectedMove |-> SelectedMove,
                        refreshed |-> "failed", answer |-> r.answer,
                        requests |-> r.requests, notified |-> r.notified]
                  ELSE [ok |-> TRUE, state |-> r.state, history |-> appended,
                        error |-> "", selectedMove |-> SelectedMove,
                        refreshed |-> "ok", answer |-> r.answer,
                        requests |-> r.requests, notified |-> r.notified]

\* TryMoveSelectedTo without the check of the selected square
TryMoveSelectedTo_NoFromCheck(state, history, TargetSquare, outcome) ==
    LET From == NormalizeSquare(state.SelectedSquare)
        To == NormalizeSquare(TargetSquare)
        rejected(why) == [ok |-> FALSE, state |-> state, history |-> history,
                          error |-> why, selectedMove |-> <<>>, refreshed |-> "none",
                          answer |-> [kind |-> "None"], requests |-> <<>>, notified |-> <<>>]
    IN
    IF ~IsSquareValid(To) THEN rejected("Target square is invalid.")
    ELSE LET SelectedMove == PickMove(state.LegalMovesUci, From \o To, <<>>) IN
         IF SelectedMove = <<>> THEN rejected("Illegal move")
         ELSE LET appended == Append(history, SelectedMove)
                  r == RefreshState(state, appended, outcome)
              IN  IF ~r.ok
                  THEN [ok |-> FALSE, state |-> r.state,
                        history |-> SubSeq(appended, 1, Len(appended) - 1),
                        error |-> r.error, selectedMove |-> SelectedMove,
                        refreshed |-> "failed", answer |-> r.answer,
                        requests |-> r.requests, notified |-> r.notified]
                  ELSE [ok |-> TRUE, state |-> r.state, history |-> appended,
                        error |-> "", selectedMove |-> SelectedMove,
                        refreshed |-> "ok", answer |-> r.answer,
                        requests |-> r.requests, notified |-> r.notified]

\* TryMoveSelectedTo refusing every move once the game is over
TryMoveSelectedTo_RefusesWhenOver(state, history, TargetSquare, outcome) ==
    LET From == NormalizeSquare(state.SelectedSquare)
        To == NormalizeSquare(TargetSquare)
        rejected(why) == [ok |-> FALSE, state |-> state, history |-> history,
                          error |-> why, selectedMove |-> <<>>, refreshed |-> "none",
                          answer |-> [kind |-> "None"], requests |-> <<>>, notified |-> <<>>]
    IN
    IF state.bIsGameOver THEN rejected("Game is over.")
    ELSE IF ~IsSquareValid(From) THEN rejected("No selected square.")
    ELSE IF ~IsSquareValid(To) THEN rejected("Target square is invalid.")
    ELSE LET SelectedMove == PickMove(state.LegalMovesUci, From \o To, <<>>) IN
         IF SelectedMove = <<>> THEN rejected("Illegal move")
         ELSE LET appended == Append(history, SelectedMove)
                  r == RefreshState(state, appended, outcome)
              IN  IF ~r.ok
                  THEN [ok |-> FALSE, state |-> r.state,
                        history |-> SubSeq(appended, 1, Len(appended) - 1),
                        error |-> r.error, selectedMove |-> SelectedMove,
                        refreshed |-> "failed", answer |-> r.answer,
                        requests |-> r.requests, notified |-> r.notified]
                  ELSE [ok |-> TRUE, state |-> r.state, history |-> appended,
                        error |-> "", selectedMove |-> SelectedMove,
                        refreshed |-> "ok", answer |-> r.answer,
                        requests |-> r.requests, notified |-> r.notified]

\* UChessGameStateComponent::TryMoveSelectedTo
TryMoveSelectedTo(state, history, TargetSquare, outcome) ==
    LET From == NormalizeSquare(state.SelectedSquare)
        To == NormalizeSquare(TargetSquare)
        rejected(why) == [ok |-> FALSE, state |-> state, history |-> history,
                          error |-> why, selectedMove |-> <<>>, refreshed |-> "none",
                          answer |-> [kind |-> "None"], requests |-> <<>>, notified |-> <<>>]
    IN
    IF ~IsSquareValid(From) THEN rejected("No selected square.")
    ELSE IF ~IsSquareValid(To) THEN rejected("Target square is invalid.")
    ELSE LET SelectedMove == PickMove(state.LegalMovesUci, From \o To, <<>>) IN
         IF SelectedMove = <<>> THEN rejected("Illegal move")
         ELSE LET appended == Append(history, SelectedMove)
                  r == RefreshState(state, appended, outcome)
              IN  IF ~r.ok
                  THEN [ok |-> FALSE, state |-> r.state,
                        history |-> SubSeq(appended, 1, Len(appended) - 1),
                        error |-> r.error, selectedMove |-> SelectedMove,
                        refreshed |-> "failed", answer |-> r.answer,
                        requests |-> r.requests, notified |-> r.notified]
                  ELSE [ok |-> TRUE, state |-> r.state, history |-> appended,
                        error |-> "", selectedMove |-> SelectedMove,
                        refreshed |-> "ok", answer |-> r.answer,
                        requests |-> r.requests, notified |-> r.notified]

(***************************************************************************)
(* The board actor: squares and world locations, and clicks.  Lengths are  *)
(* counted in half world units, so that the tile centres, which lie at     *)
(* (index - 3.5) * TileSize, are whole numbers for every TileSize.         *)
(***************************************************************************)
DefaultTileSize == 100

Vector(X, Y, Z) == [X |-> X, Y |-> Y, Z |-> Z]

ZeroVector == Vector(0, 0, 0)

\* The actor as constructed, with the game-state component assigned
DefaultBoard ==
    [GameStateComponent |-> "set", TileSize |-> DefaultTileSize, BoardOrigin |-> ZeroVector]

FileNames == <<"a", "b", "c", "d", "e", "f", "g", "h">>

RankNames == <<"1", "2", "3", "4", "5", "6", "7", "8">>

\* AChessBoardActor::IsSquareValid
BoardIsSquareValid(Square) ==
    IF Len(Square) # 2 THEN FALSE
    ELSE LET File == Square[1]
             Rank == Square[2]
         IN  /\ Ord(File) >= Ord("a") /\ Ord(File) <= Ord("h")
             /\ Ord(Rank) >= Ord("1") /\ Ord(Rank) <= Ord("8")

\* AChessBoardActor::NormalizeSquare
BoardNormalizeSquare(Square) == TrimStartAndEnd(ToLower(Square))

\* AChessBoardActor::SquareToWorld.  HeightOffset and the result are in half
\* units; (FileIndex - 3.5) * TileSize units are (2 * FileIndex - 7) * TileSize
\* half units.
SquareToWorld(actor, Square, HeightOffset) ==
    LET Normalized == BoardNormalizeSquare(Square) IN
    IF ~BoardIsSquareValid(Normalized) THEN actor.BoardOrigin
    ELSE LET FileIndex == Ord(Normalized[1]) - Ord("a")
             RankIndex == Ord(Normalized[2]) - Ord("1")
             X == (2 * FileIndex - 7) * actor.TileSize
             Y == (2 * RankIndex - 7) * actor.TileSize
         IN  Vector(actor.BoardOrigin.X + X, actor.BoardOrigin.Y + Y,
                    actor.BoardOrigin.Z + HeightOffset)

\* WorldToSquare cutting the fraction off instead of rounding down
WorldToSquare_Truncates(actor, WorldLocation) ==
    LET LocalX == WorldLocation.X - actor.BoardOrigin.X
        LocalY == WorldLocation.Y - actor.BoardOrigin.Y
        Trunc(n, d) == IF n >= 0 THEN n \div d ELSE -((-n) \div d)
        FileIndex == Trunc(LocalX + 8 * actor.TileSize, 2 * actor.TileSize)
        RankIndex == Trunc(LocalY + 8 * actor.TileSize, 2 * actor.TileSize)
    IN  IF FileIndex < 0 \/ FileIndex > 7 \/ RankIndex < 0 \/ RankIndex > 7
        THEN [ok |-> FALSE, OutSquare |-> <<>>]
        ELSE [ok |-> TRUE, OutSquare |-> <<FileNames[FileIndex + 1], RankNames[RankIndex + 1]>>]

\* AChessBoardActor::WorldToSquare.  Local.X / TileSize in units is
\* Local.X / (2 * TileSize) in half units; FloorToInt rounds down.
WorldToSquare(actor, WorldLocation) ==
    LET LocalX == WorldLocation.X - actor.BoardOrigin.X
        LocalY == WorldLocation.Y - actor.BoardOrigin.Y
        FileIndex == (LocalX \div (2 * actor.TileSize)) + 4
        RankIndex == (LocalY \div (2 * actor.TileSize)) + 4
    IN  IF FileIndex < 0 \/ FileIndex > 7 \/ RankIndex < 0 \/ RankIndex > 7
        THEN [ok |-> FALSE, OutSquare |-> <<>>]
        ELSE [ok |-> TRUE, OutSquare |-> <<FileNames[FileIndex + 1], RankNames[RankIndex + 1]>>]

(***************************************************************************)
(* The observers: the camera director and the lighting director.  Each     *)
(* binds its HandleStateChanged to OnStateChanged in its BeginPlay when a  *)
(* game-state component is assigned to it.                                 *)
(***************************************************************************)
\* ApplySideToMove comparing the turn with "white" case-sensitively
CameraApplySideToMove_CaseSensitive(Turn) ==
    LET bWhiteToMove == Turn = White
    IN  IF bWhiteToMove THEN "WhiteEye" ELSE "BlackEye"

\* AChessCameraDirector::ApplySideToMove: the eye the camera moves to
CameraApplySideToMove(Turn) ==
    LET bWhiteToMove == EqualsIgnoreCase(Turn, White)
    IN  IF bWhiteToMove THEN "WhiteEye" ELSE "BlackEye"

\* AChessLightingDirector::ApplySideToMove: the intensities of the two lights
LightingApplySideToMove(Turn) ==
    LET bWhiteToMove == EqualsIgnoreCase(Turn, White)
    IN  [WhiteSideLight |-> IF bWhiteToMove THEN "ActiveIntensity" ELSE "PassiveIntensity",
         BlackSideLight |-> IF bWhiteToMove THEN "PassiveIntensity" ELSE "ActiveIntensity"]

\* AChessCameraDirector::HandleStateChanged, reading the component's state
CameraHandleStateChanged(director, state) ==
    IF director.GameStateComponent = "null" THEN director
    ELSE [director EXCEPT !.TargetEye = CameraApplySideToMove(state.Turn)]

\* AChessLightingDirector::HandleStateChanged, reading the component's state
LightingHandleStateChanged(director, state) ==
    IF director.GameStateComponent = "null" THEN director
    ELSE [director EXCEPT !.lights = LightingApplySideToMove(state.Turn)]

\* OnStateChanged.Broadcast() as the camera director sees it: its handler runs
\* once per broadcast when bound, reading the state of that moment
RECURSIVE CameraBroadcast(_, _)
CameraBroadcast(director, notified) ==
    IF notified = <<>> \/ ~director.bound THEN director
    ELSE CameraBroadcast(CameraHandleStateChanged(director, Head(notified).state),
                         Tail(notified))

RECURSIVE LightingBroadcast(_, _)
LightingBroadcast(director, notified) ==
    IF notified = <<>> \/ ~director.bound THEN director
    ELSE LightingBroadcast(LightingHandleStateChanged(director, Head(notified).state),
                           Tail(notified))

(***************************************************************************)
(* The state machine: one action per public operation.                     *)
(***************************************************************************)
NoAnswer == [kind |-> "None"]

InitComponent ==
    /\ CurrentState = DefaultPayload
    /\ MoveHistoryUci = <<>>
    /\ begun = FALSE
    /\ lastOp = [op |-> "Construct", arg |-> <<>>, ok |-> TRUE, error |-> "",
                 refreshed |-> "none", answer |-> NoAnswer, requests |-> <<>>,
                 notified |-> <<>>, selectedMove |-> <<>>]
    /\ confirmedMoves = 0
    /\ selectionBy = "Construct"
    /\ syncState = "never"
    /\ camera = [begun |-> FALSE, GameStateComponent |-> "null", bound |-> FALSE,
                 TargetEye |-> "ZeroVector"]
    /\ lighting = [begun |-> FALSE, GameStateComponent |-> "null", bound |-> FALSE,
                   lights |-> [WhiteSideLight |-> "Default", BlackSideLight |-> "Default"]]
    /\ lastClick = [dispatched |-> "Construct"]
    /\ mapped = [call |-> "Construct"]

Init ==
    /\ InitComponent
    /\ board = DefaultBoard

\* Bookkeeping that is not part of the component: which call ran last and what
\* it did; how many moves were confirmed since the last reset; who wrote the
\* selection fields last (a response that carried them, a response that left
\* them empty, or SelectSquare); and whether a refresh has succeeded with no
\* failed reset after it.
Record(op, arg, e) ==
    /\ lastOp' = [op |-> op, arg |-> arg, ok |-> e.ok, error |-> e.error,
                  refreshed |-> e.refreshed, answer |-> e.answer,
                  requests |-> e.requests, notified |-> e.notified,
                  selectedMove |-> e.selectedMove]
    /\ confirmedMoves' = IF op = "ResetMatch" THEN 0
                         ELSE IF op = "TryMoveSelectedTo" /\ e.ok THEN confirmedMoves + 1
                         ELSE confirmedMoves
    /\ selectionBy' = IF e.refreshed = "ok"
                      THEN (IF Has(e.answer.json, "selected_square")
                               \/ Has(e.answer.json, "legal_targets")
                            THEN "Response" ELSE "Cleared")
                      ELSE IF op = "SelectSquare" /\ e.notified # <<>> THEN "SelectSquare"
                      ELSE selectionBy
    /\ syncState' = IF e.refreshed = "ok" THEN "synced"
                    ELSE IF op = "ResetMatch" /\ syncState # "never" THEN "resetFailed"
                    ELSE syncState
    /\ camera' = CameraBroadcast(camera, e.notified)
    /\ lighting' = LightingBroadcast(lighting, e.notified)

RefreshEffects(r) ==
    [ok |-> r.ok, error |-> r.error, refreshed |-> IF r.ok THEN "ok" ELSE "failed",
     answer |-> r.answer, requests |-> r.requests, notified |-> r.notified,
     selectedMove |-> <<>>]

\* UChessGameStateComponent::BeginPlay
BeginPlay(outcomes) ==
    /\ ~begun
    /\ \E outcome \in outcomes :
         LET r == RefreshState(CurrentState, MoveHistoryUci, outcome) IN
         /\ CurrentState' = r.state
         /\ Record("BeginPlay", <<>>, [RefreshEffects(r) EXCEPT !.ok = TRUE, !.error = ""])
    /\ begun' = TRUE
    /\ UNCHANGED <<MoveHistoryUci, boardVars>>

DoRefreshState(outcomes) ==
    /\ begun
    /\ \E outcome \in outcomes :
         LET r == RefreshState(CurrentState, MoveHistoryUci, outcome) IN
         /\ CurrentState' = r.state
         /\ Record("RefreshState", <<>>, RefreshEffects(r))
    /\ UNCHANGED <<MoveHistoryUci, begun, boardVars>>

DoResetMatch(outcomes) ==
    /\ begun
    /\ \E outcome \in outcomes :
         LET r == ResetMatch(CurrentState, MoveHistoryUci, outcome) IN
         /\ CurrentState' = r.state
         /\ MoveHistoryUci' = r.history
         /\ Record("ResetMatch", <<>>,
                   [ok |-> TRUE, error |-> "",
                    refreshed |-> IF r.refreshOk THEN "ok" ELSE "failed",
                    answer |-> r.answer, requests |-> r.requests,
                    notified |-> r.notified, selectedMove |-> <<>>])
    /\ UNCHANGED <<begun, boardVars>>

DoSelectSquare ==
    /\ begun
    /\ \E Square \in SquareInputs :
         LET r == SelectSquare(CurrentState, MoveHistoryUci, Square) IN
         /\ CurrentState' = r.state
         /\ Record("SelectSquare", Square,
                   [ok |-> r.ok, error |-> "", refreshed |-> "none", answer |-> NoAnswer,
                    requests |-> <<>>, notified |-> r.notified, selectedMove |-> <<>>])
    /\ UNCHANGED <<MoveHistoryUci, begun, boardVars>>

\* Whether the call gets as far as starting the exporter: only then does the
\* environment have anything to decide
RunsExporter(state, history, TargetSquare) ==
    TryMoveSelectedTo(state, history, TargetSquare, [kind |-> "ExecFailed"]).refreshed # "none"

DoTryMoveSelectedTo(outcomes) ==
    /\ begun
    /\ Len(MoveHistoryUci) < MaxHistory
    /\ \E TargetSquare \in SquareInputs :
       \E outcome \in IF RunsExporter(CurrentState, MoveHistoryUci, TargetSquare)
                      THEN outcomes ELSE {NoAnswer} :
         LET r == TryMoveSelectedTo(CurrentState, MoveHistoryUci, TargetSquare, outcome) IN
         /\ CurrentState' = r.state
         /\ MoveHistoryUci' = r.history
         /\ Record("TryMoveSelectedTo", TargetSquare,
                   [ok |-> r.ok, error |-> r.error, refreshed |-> r.refreshed,
                    answer |-> r.answer, requests |-> r.requests,
                    notified |-> r.notified, selectedMove |-> r.selectedMove])
    /\ UNCHANGED <<begun, boardVars>>

Next ==
    \/ BeginPlay(FreeOutcomes)
    \/ DoRefreshState(FreeOutcomes)
    \/ DoResetMatch(FreeOutcomes)
    \/ DoSelectSquare
    \/ DoTryMoveSelectedTo(FreeOutcomes)

Spec == Init /\ [][Next]_vars

NextDet ==
    \/ BeginPlay(DetOutcomes)
    \/ DoRefreshState(DetOutcomes)
    \/ DoResetMatch(DetOutcomes)
    \/ DoSelectSquare
    \/ DoTryMoveSelectedTo(DetOutcomes)

SpecDet == Init /\ [][NextDet]_vars

\* AChessCameraDirector::BeginPlay.  The component is assigned in the editor
\* or not at all; the actor may begin play before or after the component.
CameraDirectorBeginPlay ==
    /\ ~camera.begun
    /\ \E GameStateComponent \in {"set", "null"} :
         camera' = IF GameStateComponent # "null"
                   THEN [begun |-> TRUE, GameStateComponent |-> GameStateComponent,
                         bound |-> TRUE,
                         TargetEye |-> CameraApplySideToMove(CurrentState.Turn)]
                   ELSE [begun |-> TRUE, GameStateComponent |-> GameStateComponent,
                         bound |-> FALSE,
                         TargetEye |-> CameraApplySideToMove(White)]
    /\ UNCHANGED <<CurrentState, MoveHistoryUci, begun, lastOp, confirmedMoves,
                   selectionBy, syncState, lighting, boardVars>>

\* AChessLightingDirector::BeginPlay
LightingDirectorBeginPlay ==
    /\ ~lighting.begun
    /\ \E GameStateComponent \in {"set", "null"} :
         lighting' = IF GameStateComponent # "null"
                     THEN [begun |-> TRUE, GameStateComponent |-> GameStateComponent,
                           bound |-> TRUE,
                           lights |-> LightingApplySideToMove(CurrentState.Turn)]
                     ELSE [begun |-> TRUE, GameStateComponent |-> GameStateComponent,
                           bound |-> FALSE,
                           lights |-> LightingApplySideToMove(White)]
    /\ UNCHANGED <<CurrentState, MoveHistoryUci, begun, lastOp, confirmedMoves,
                   selectionBy, syncState, camera, boardVars>>

\* ClickWorldLocation returning the result r of TryMoveSelectedTo, with its
\* OutError
ClickedMove(Normalized, r) ==
    [ok |-> r.ok, error |-> r.error, dispatched |-> "TryMoveSelectedTo",
     square |-> Normalized, state |-> r.state, history |-> r.history,
     effects |-> [ok |-> r.ok, error |-> r.error, refreshed |-> r.refreshed,
                  answer |-> r.answer, requests |-> r.requests,
                  notified |-> r.notified, selectedMove |-> r.selectedMove]]

\* ClickWorldLocation returning the result r of SelectSquare (bSelected), with
\* an error text of its own when the square was not selected (the text also
\* names the square, which is left out here)
ClickedSelect(Normalized, history, r) ==
    [ok |-> r.ok,
     error |-> IF ~r.ok THEN "Square is not selectable for current turn." ELSE "",
     dispatched |-> "SelectSquare",
     square |-> Normalized, state |-> r.state, history |-> history,
     effects |-> [ok |-> r.ok, error |-> "", refreshed |-> "none",
                  answer |-> NoAnswer, requests |-> <<>>,
                  notified |-> r.notified, selectedMove |-> <<>>]]

\* ClickWorldLocation deciding on LegalTargets alone
ClickWorldLocation_TargetsOnly(actor, state, history, WorldLocation, outcome) ==
    LET refused(why) ==
            [ok |-> FALSE, error |-> why, dispatched |-> "None", square |-> <<>>,
             state |-> state, history |-> history,
             effects |-> [ok |-> FALSE, error |-> why, refreshed |-> "none",
                          answer |-> NoAnswer, requests |-> <<>>, notified |-> <<>>,
                          selectedMove |-> <<>>]]
    IN
    IF actor.GameStateComponent = "null"
    THEN refused("GameStateComponent is not set on ChessBoardActor.")
    ELSE LET w == WorldToSquare(actor, WorldLocation) IN
    IF ~w.ok THEN refused("Click is outside board bounds.")
    ELSE LET Normalized == BoardNormalizeSquare(w.OutSquare) IN
    IF Contains(state.LegalTargets, Normalized)
    THEN ClickedMove(Normalized, TryMoveSelectedTo(state, history, Normalized, outcome))
    ELSE ClickedSelect(Normalized, history, SelectSquare(state, history, Normalized))

\* AChessBoardActor::ClickWorldLocation: the controller call it makes, if any,
\* and that call's effects
ClickWorldLocation(actor, state, history, WorldLocation, outcome) ==
    LET refused(why) ==
            [ok |-> FALSE, error |-> why, dispatched |-> "None", square |-> <<>>,
             state |-> state, history |-> history,
             effects |-> [ok |-> FALSE, error |-> why, refreshed |-> "none",
                          answer |-> NoAnswer, requests |-> <<>>, notified |-> <<>>,
                          selectedMove |-> <<>>]]
    IN
    IF actor.GameStateComponent = "null"
    THEN refused("GameStateComponent is not set on ChessBoardActor.")
    ELSE LET w == WorldToSquare(actor, WorldLocation) IN
    IF ~w.ok THEN refused("Click is outside board bounds.")
    ELSE LET Normalized == BoardNormalizeSquare(w.OutSquare) IN
    IF state.SelectedSquare # <<>> /\ Contains(state.LegalTargets, Normalized)
    THEN ClickedMove(Normalized, TryMoveSelectedTo(state, history, Normalized, outcome))
    ELSE ClickedSelect(Normalized, history, SelectSquare(state, history, Normalized))

\* Where the player clicks: the centres of some squares, the corner of a1 that
\* is on the board, and places beside the board
ClickLocations ==
    { SquareToWorld(DefaultBoard, sq, 0) :
        sq \in { <<"e", "2">>, <<"e", "4">>, <<"e", "3">>, <<"b", "1">>, <<"a", "1">>,
                 <<"e", "7">>, <<"e", "8">>, <<"d", "8">> } }
    \cup { Vector(-800, -800, 0), Vector(800, 0, 0), Vector(-801, 0, 0), Vector(0, 5000, 0) }

\* What the exporter answers in the world with the board: failures, the two
\* positions, and responses carrying one of the selection fields only
BoardOutcomes ==
    { [kind |-> "ScriptMissing"], [kind |-> "ExecFailed"],
      [kind |-> "Output", json |-> DocA],
      [kind |-> "Output", json |-> DocB],
      [kind |-> "Output", json |-> With(DocB, [selected_square |-> <<"e", "7">>])],
      [kind |-> "Output", json |-> With(DocC, [legal_targets |-> <<JsonString(<<"e", "4">>), JsonNull>>])] }

ClickRunsExporter(actor, state, history, WorldLocation) ==
    ClickWorldLocation(actor, state, history, WorldLocation,
                       [kind |-> "ExecFailed"]).effects.refreshed # "none"

\* The click c at WorldLocation takes effect: the component changes only when
\* the click reached it
ClickTakesEffect(WorldLocation, c) ==
    /\ lastClick' = [dispatched |-> c.dispatched, location |-> WorldLocation,
                     square |-> c.square, ok |-> c.ok, error |-> c.error]
    /\ IF c.dispatched = "None"
       THEN UNCHANGED <<CurrentState, MoveHistoryUci, lastOp, confirmedMoves,
                        selectionBy, syncState, camera, lighting>>
       ELSE /\ CurrentState' = c.state
            /\ MoveHistoryUci' = c.history
            /\ Record(c.dispatched, c.square, c.effects)

DoClickWorldLocation(outcomes) ==
    /\ begun
    /\ Len(MoveHistoryUci) < MaxHistory
    /\ \E WorldLocation \in ClickLocations :
       \E outcome \in IF ClickRunsExporter(board, CurrentState, MoveHistoryUci, WorldLocation)
                      THEN outcomes ELSE {NoAnswer} :
         ClickTakesEffect(WorldLocation,
                          ClickWorldLocation(board, CurrentState, MoveHistoryUci,
                                             WorldLocation, outcome))
    /\ UNCHANGED <<begun, board, mapped>>

\* The board actor may have no game-state component assigned
InitBoard ==
    /\ InitComponent
    /\ board \in { DefaultBoard, [DefaultBoard EXCEPT !.GameStateComponent = "null"] }

NextBoard ==
    \/ BeginPlay(BoardOutcomes)
    \/ DoRefreshState(BoardOutcomes)
    \/ DoResetMatch(BoardOutcomes)
    \/ DoClickWorldLocation(BoardOutcomes)

SpecBoard == InitBoard /\ [][NextBoard]_vars

(***************************************************************************)
(* The coordinate conversions on their own: boards of several tile sizes   *)
(* and origins, squares in several spellings, locations on and around the  *)
(* board.                                                                  *)
(***************************************************************************)
MaxTileSize == 3

MaxTiles == 5

TileSizes == (1..MaxTileSize) \cup {DefaultTileSize}

BoardOrigins == { ZeroVector, Vector(5, -3, 2), Vector(-4, 6, 0) }

\* The squares asked for: valid ones in several spellings, and invalid ones
MappingSquares ==
    { <<"a", "1">>, <<"h", "8">>, <<"e", "2">>, <<"E", "2">>, <<" ", "d", "5", " ">>,
      <<"H", "1">>, <<"a", "8">>,
      <<>>, <<"e", "9">>, <<"i", "1">>, <<"e", "2", "e">>, <<"a", "0">> }

HeightOffsets == {0, 4}

\* Distances from BoardOrigin, in half units: on, just before and just after
\* every tile boundary up to MaxTiles tiles from the middle of the board
TileOffsets(actor) ==
    { 2 * actor.TileSize * k + d : k \in (-MaxTiles)..MaxTiles, d \in {-1, 0, 1} }

\* Distances from BoardOrigin at the two edges and the middle of the board
EdgeOffsets(actor) ==
    { -8 * actor.TileSize - 1, -8 * actor.TileSize, -1, 0,
      8 * actor.TileSize - 1, 8 * actor.TileSize }

\* The locations asked for: one coordinate anywhere along the board, the
\* other at an edge or the middle
MappingLocations(actor) ==
    { Vector(actor.BoardOrigin.X + p[1], actor.BoardOrigin.Y + p[2], 0) :
        p \in (TileOffsets(actor) \X EdgeOffsets(actor))
               \cup (EdgeOffsets(actor) \X TileOffsets(actor)) }

InitMapping ==
    /\ InitComponent
    /\ board \in { [GameStateComponent |-> "set", TileSize |-> t, BoardOrigin |-> o] :
                    t \in TileSizes, o \in BoardOrigins }

DoSquareToWorld ==
    /\ \E Square \in MappingSquares, HeightOffset \in HeightOffsets :
         mapped' = [call |-> "SquareToWorld", Square |-> Square,
                    HeightOffset |-> HeightOffset,
                    location |-> SquareToWorld(board, Square, HeightOffset),
                    ok |-> FALSE, OutSquare |-> <<>>]
    /\ UNCHANGED <<CurrentState, MoveHistoryUci, begun, lastOp, confirmedMoves,
                   selectionBy, syncState, camera, lighting, board, lastClick>>

DoWorldToSquare ==
    /\ \E WorldLocation \in MappingLocations(board) :
         LET w == WorldToSquare(board, WorldLocation) IN
         mapped' = [call |-> "WorldToSquare", Square |-> <<>>, HeightOffset |-> 0,
                    location |-> WorldLocation, ok |-> w.ok, OutSquare |-> w.OutSquare]
    /\ UNCHANGED <<CurrentState, MoveHistoryUci, begun, lastOp, confirmedMoves,
                   selectionBy, syncState, camera, lighting, board, lastClick>>

\* WorldToSquare applied to the location SquareToWorld has just returned
DoRoundTrip ==
    /\ mapped.call = "SquareToWorld"
    /\ LET w == WorldToSquare(board, mapped.location) IN
       mapped' = [mapped EXCEPT !.call = "RoundTrip", !.ok = w.ok, !.OutSquare = w.OutSquare]
    /\ UNCHANGED <<CurrentState, MoveHistoryUci, begun, lastOp, confirmedMoves,
                   selectionBy, syncState, camera, lighting, board, lastClick>>

NextMapping ==
    \/ DoSquareToWorld
    \/ DoWorldToSquare
    \/ DoRoundTrip

SpecMapping == InitMapping /\ [][NextMapping]_vars

\* What the exporter answers in the world with the directors: a failure, White
\* to move, Black to move, and White to move spelled in capitals
DirectorOutcomes ==
    { [kind |-> "ExecFailed"],
      [kind |-> "Output", json |-> DocA],
      [kind |-> "Output", json |-> DocB],
      [kind |-> "Output", json |-> With(DocA, [turn |-> <<"W", "H", "I", "T", "E">>])] }

NextDirectors ==
    \/ BeginPlay(DirectorOutcomes)
    \/ DoRefreshState(DirectorOutcomes)
    \/ DoResetMatch(DirectorOutcomes)
    \/ DoSelectSquare
    \/ DoTryMoveSelectedTo(DirectorOutcomes)
    \/ CameraDirectorBeginPlay
    \/ LightingDirectorBeginPlay

SpecDirectors == Init /\ [][NextDirectors]_vars

(***************************************************************************)
(* Properties.                                                             *)
(***************************************************************************)
Elements(arr) == { arr[i] : i \in 1..Len(arr) }

\* The destination squares of the entries that start at the given square
DestinationsFrom(moves, square) ==
    { SubSeq(m, 3, 4) : m \in { u \in Elements(moves) : SubSeq(u, 1, 2) = square } }

TargetsExact(state) ==
    Elements(state.LegalTargets) = DestinationsFrom(state.LegalMovesUci, state.SelectedSquare)

\* C1 as stated: whenever a square is selected, LegalTargets is exactly the set
\* of destinations of the legal moves starting at it, whatever the exporter sent.
C1_AsStated == CurrentState.SelectedSquare # <<>> => TargetsExact(CurrentState)

\* C1 amended: whenever a square is selected and the selection fields were not
\* taken from an exporter response that carried selected_square or
\* legal_targets, LegalTargets is exactly the set of destinations of the legal
\* moves starting at the selected square.
C1_TargetsMatchSelection ==
    (CurrentState.SelectedSquare # <<>> /\ selectionBy # "Response")
        => TargetsExact(CurrentState)

\* A selection made by SelectSquare survives a later failed refresh, with two targets
C1_Witness ==
    /\ selectionBy = "SelectSquare"
    /\ CurrentState.SelectedSquare = <<"e", "2">>
    /\ Len(CurrentState.LegalTargets) = 2
    /\ lastOp.op = "RefreshState" /\ ~lastOp.ok

\* C2 as stated: no targets means no selection, in every reachable state.
C2_AsStated == CurrentState.LegalTargets = <<>> => CurrentState.SelectedSquare = <<>>

\* C2 amended: as long as the selection fields were not taken from an exporter
\* response that carried selected_square or legal_targets, the selection and
\* the targets are both present or both absent.
C2_SelectionAndTargetsTogether ==
    selectionBy # "Response"
        => (CurrentState.LegalTargets = <<>> <=> CurrentState.SelectedSquare = <<>>)

\* SelectSquare on a square without moves has just cleared a selection
C2_Witness ==
    /\ lastOp.op = "SelectSquare" /\ ~lastOp.ok /\ lastOp.notified # <<>>
    /\ selectionBy = "SelectSquare"
    /\ CurrentState.LegalMovesUci # <<>>
    /\ CurrentState.LegalTargets = <<>>

\* C3: a refresh that fails, for whichever reason, leaves CurrentState as it
\* was and broadcasts nothing; a RefreshState call that returns false also
\* leaves the move history as it was and reports an error text.
C3_FailedRefreshChangesNothing ==
    [][/\ lastOp'.refreshed = "failed"
            => (CurrentState' = CurrentState /\ lastOp'.notified = <<>>)
       /\ (lastOp'.op = "RefreshState" /\ ~lastOp'.ok)
            => /\ CurrentState' = CurrentState
               /\ MoveHistoryUci' = MoveHistoryUci
               /\ lastOp'.notified = <<>>
               /\ lastOp'.error # ""
      ]_vars

\* A document without "turn" but with a new "fen" was refused
C3_Witness ==
    /\ lastOp.op = "RefreshState" /\ ~lastOp.ok
    /\ lastOp.error = "Payload is missing one or more required fields."
    /\ Has(lastOp.answer.json, "fen") /\ lastOp.answer.json.fen # CurrentState.Fen
    /\ CurrentState.Fen # ""

Triple(state) == <<state.Fen, state.Turn, state.LegalMovesUci>>

\* The position a complete response describes
ResponseTriple(doc) ==
    <<doc.fen, doc.turn,
      IF Has(doc, "legal_moves_uci") THEN StringItems(doc.legal_moves_uci) ELSE <<>>>>

\* C4: a step either leaves (Fen, Turn, LegalMovesUci) as it was or, when its
\* refresh succeeded, makes it the triple of the new response; what observers
\* read in the broadcast is one of these two, never a mixture.
C4_SnapshotReplacedWhole ==
    [][/\ lastOp'.refreshed = "ok"
            => Triple(CurrentState') = ResponseTriple(lastOp'.answer.json)
       /\ lastOp'.refreshed # "ok" => Triple(CurrentState') = Triple(CurrentState)
       /\ \A i \in 1..Len(lastOp'.notified) :
            Triple(lastOp'.notified[i].state) \in {Triple(CurrentState), Triple(CurrentState')}
      ]_vars

\* A refresh replaced the position moves had been played from by fenC
C4_Witness ==
    /\ lastOp.op = "RefreshState" /\ lastOp.ok
    /\ MoveHistoryUci # <<>>
    /\ CurrentState.Fen = "fenC"
    /\ Len(lastOp.notified) = 1

\* C5: when TryMoveSelectedTo has picked a legal move and the refresh after it
\* fails, the call fails with an error, and the move history and CurrentState
\* are what they were before the call.
C5_FailedMoveRolledBack ==
    [][(/\ lastOp'.op = "TryMoveSelectedTo"
        /\ lastOp'.selectedMove # <<>>
        /\ lastOp'.refreshed = "failed")
        => /\ ~lastOp'.ok
           /\ lastOp'.error # ""
           /\ MoveHistoryUci' = MoveHistoryUci
           /\ CurrentState' = CurrentState]_vars

\* A second move was picked, sent and refused: one confirmed move remains
C5_Witness ==
    /\ lastOp.op = "TryMoveSelectedTo"
    /\ lastOp.selectedMove # <<>>
    /\ lastOp.refreshed = "failed"
    /\ Len(MoveHistoryUci) = 1
    /\ lastOp.selectedMove # MoveHistoryUci[1]
    /\ CurrentState.SelectedSquare # <<>>

\* C6: between calls the length of the move history is the number of
\* TryMoveSelectedTo calls that succeeded since construction or the last
\* ResetMatch, and no other call changes the history.
C6_HistoryCountsConfirmedMoves ==
    /\ [](Len(MoveHistoryUci) = confirmedMoves)
    /\ [][(\/ lastOp'.op \in {"BeginPlay", "RefreshState", "SelectSquare"}
           \/ (lastOp'.op = "TryMoveSelectedTo" /\ ~lastOp'.ok))
          => MoveHistoryUci' = MoveHistoryUci]_vars

\* After one confirmed move, a further move was refused by the refresh
C6_Witness ==
    /\ confirmedMoves = 1
    /\ lastOp.op = "TryMoveSelectedTo" /\ lastOp.refreshed = "failed"

\* The fen the deterministic exporter answers for a replay of the history
ReplayedFen(history) ==
    LET answer == ReplayAnswer(Request(history)) IN
    IF answer.kind = "Output" THEN answer.json.fen ELSE "replay refused"

\* C7: with the deterministic exporter, once a refresh has succeeded, Fen is
\* the fen the exporter answers for a replay of the move history, also after
\* calls whose refresh failed.
C7_FenMatchesReplayAlways ==
    syncState # "never" => CurrentState.Fen = ReplayedFen(MoveHistoryUci)

\* What the component does keep: Fen is the replayed fen as long as no
\* ResetMatch has failed since the last successful refresh.
C7_FenMatchesReplayUnlessResetFailed ==
    syncState = "synced" => CurrentState.Fen = ReplayedFen(MoveHistoryUci)

\* Two moves confirmed, then a refresh that failed
C7_Witness ==
    /\ syncState = "synced"
    /\ Len(MoveHistoryUci) = 2
    /\ lastOp.refreshed = "failed"
    /\ CurrentState.Fen # StartFen

\* C8: ResetMatch starts the exporter with an empty move list, leaves the move
\* history empty whether or not its refresh succeeds, and reports no error.
C8_ResetClearsHistoryFirst ==
    [][lastOp'.op = "ResetMatch"
        => /\ MoveHistoryUci' = <<>>
           /\ \A i \in 1..Len(lastOp'.requests) : lastOp'.requests[i].moves = <<>>
           /\ lastOp'.ok /\ lastOp'.error = ""]_vars

\* A reset whose exporter run failed after the request was made
C8_Witness ==
    /\ lastOp.op = "ResetMatch"
    /\ lastOp.refreshed = "failed"
    /\ Len(lastOp.requests) = 1
    /\ MoveHistoryUci = <<>>
    /\ CurrentState.LegalMovesUci # <<>>

\* C9 as stated: after every successful refresh, inside TryMoveSelectedTo or
\* not, nothing is selected and there are no targets.
C9_AsStated ==
    lastOp.refreshed = "ok"
        => (CurrentState.SelectedSquare = <<>> /\ CurrentState.LegalTargets = <<>>)

ResponseSelection(doc) ==
    IF Has(doc, "selected_square") THEN doc.selected_square ELSE <<>>

ResponseTargets(doc) ==
    IF Has(doc, "legal_targets") THEN StringItems(doc.legal_targets) ELSE <<>>

\* C9 amended: after every successful refresh, inside TryMoveSelectedTo or not,
\* SelectedSquare and LegalTargets are the selected_square and legal_targets of
\* the response, and empty when the response omits them: the selection held
\* before the call is never kept.  SelectedSquare changes to a non-empty value
\* only in a SelectSquare call or in a successful refresh whose response
\* carries selected_square.
C9_SelectionFromResponseOnly ==
    /\ [](lastOp.refreshed = "ok"
            => /\ CurrentState.SelectedSquare = ResponseSelection(lastOp.answer.json)
               /\ CurrentState.LegalTargets = ResponseTargets(lastOp.answer.json))
    /\ [][(CurrentState'.SelectedSquare # <<>>
           /\ CurrentState'.SelectedSquare # CurrentState.SelectedSquare)
          => \/ lastOp'.op = "SelectSquare"
             \/ (lastOp'.refreshed = "ok" /\ Has(lastOp'.answer.json, "selected_square"))]_vars

\* A move succeeded on a response without selection fields: the selection is gone
C9_Witness ==
    /\ lastOp.op = "TryMoveSelectedTo" /\ lastOp.ok
    /\ ~Has(lastOp.answer.json, "selected_square")
    /\ ~Has(lastOp.answer.json, "legal_targets")
    /\ CurrentState.SelectedSquare = <<>>
    /\ CurrentState.LegalMovesUci # <<>>

FirstWithPrefix(moves, Prefix) ==
    moves[CHOOSE i \in 1..Len(moves) :
            /\ StartsWith(moves[i], Prefix)
            /\ \A j \in 1..(i - 1) : ~StartsWith(moves[j], Prefix)]

\* C10: the move TryMoveSelectedTo picks for a valid selection and target is
\* the queen promotion selection+target+"q" when LegalMovesUci has it anywhere,
\* and otherwise the first entry starting with selection+target; it is an
\* element of LegalMovesUci, and it is what a successful call appends.
C10_QueenPromotionPreferred ==
    [][(lastOp'.op = "TryMoveSelectedTo" /\ lastOp'.selectedMove # <<>>)
        => LET moves == CurrentState.LegalMovesUci
               Prefix == NormalizeSquare(CurrentState.SelectedSquare)
                            \o NormalizeSquare(lastOp'.arg)
               queen == Prefix \o <<"q">>
           IN  /\ lastOp'.selectedMove \in Elements(moves)
               /\ queen \in Elements(moves) => lastOp'.selectedMove = queen
               /\ queen \notin Elements(moves)
                    => lastOp'.selectedMove = FirstWithPrefix(moves, Prefix)
               /\ lastOp'.ok => MoveHistoryUci' = Append(MoveHistoryUci, lastOp'.selectedMove)
      ]_vars

\* e7e8q was picked although e7e8n comes first in the list
C10_Witness ==
    /\ lastOp.op = "TryMoveSelectedTo"
    /\ lastOp.selectedMove = e7e8q
    /\ lastOp.ok
    /\ MoveHistoryUci[Len(MoveHistoryUci)] = e7e8q

\* e7d8r was picked: no queen promotion to d8, first of two entries
C10_WitnessFirstMatch ==
    /\ lastOp.op = "TryMoveSelectedTo"
    /\ lastOp.selectedMove = e7d8r

\* C11: TryMoveSelectedTo called while SelectedSquare is empty returns false
\* with the error "No selected square.", starts no exporter process,
\* broadcasts nothing, and leaves CurrentState and MoveHistoryUci as they were.
C11_NoSelectionRejected ==
    [][(lastOp'.op = "TryMoveSelectedTo" /\ CurrentState.SelectedSquare = <<>>)
        => /\ ~lastOp'.ok
           /\ lastOp'.error = "No selected square."
           /\ lastOp'.requests = <<>>
           /\ lastOp'.notified = <<>>
           /\ CurrentState' = CurrentState
           /\ MoveHistoryUci' = MoveHistoryUci
      ]_vars

\* A move to e4 was refused for lack of a selection although e2e4 is legal
C11_Witness ==
    /\ lastOp.op = "TryMoveSelectedTo"
    /\ lastOp.error = "No selected square."
    /\ lastOp.arg = <<"e", "4">>
    /\ CurrentState.SelectedSquare = <<>>
    /\ e2e4 \in Elements(CurrentState.LegalMovesUci)

Files == {"a", "b", "c", "d", "e", "f", "g", "h"}

Ranks == {"1", "2", "3", "4", "5", "6", "7", "8"}

\* A square name as the board has them: a file letter a-h and a rank digit 1-8
WellFormed(square) ==
    Len(square) = 2 /\ square[1] \in Files /\ square[2] \in Ranks

\* Whether some entry of the list starts with the four characters origin+target
HasMove(moves, origin, target) ==
    \E m \in Elements(moves) : Len(m) >= 4 /\ SubSeq(m, 1, 4) = origin \o target

\* C12: TryMoveSelectedTo with a well-formed SelectedSquare and a well-formed
\* target, when no LegalMovesUci entry starts with SelectedSquare+target,
\* returns false with the error "Illegal move"; SelectedSquare, LegalTargets,
\* all of CurrentState and MoveHistoryUci stay as they were, no exporter
\* process is started and nothing is broadcast.
C12_IllegalMoveRejected ==
    [][(/\ lastOp'.op = "TryMoveSelectedTo"
        /\ WellFormed(CurrentState.SelectedSquare)
        /\ WellFormed(NormalizeSquare(lastOp'.arg))
        /\ ~HasMove(CurrentState.LegalMovesUci, CurrentState.SelectedSquare,
                    NormalizeSquare(lastOp'.arg)))
        => /\ ~lastOp'.ok
           /\ lastOp'.error = "Illegal move"
           /\ lastOp'.requests = <<>>
           /\ lastOp'.notified = <<>>
           /\ CurrentState' = CurrentState
           /\ CurrentState'.SelectedSquare # <<>>
           /\ MoveHistoryUci' = MoveHistoryUci
      ]_vars

\* With e2 selected and targets e3, e4, a move to e8 was refused; the selection
\* is still there
C12_Witness ==
    /\ lastOp.op = "TryMoveSelectedTo"
    /\ lastOp.error = "Illegal move"
    /\ lastOp.arg = <<"e", "8">>
    /\ CurrentState.SelectedSquare = <<"e", "2">>
    /\ CurrentState.LegalTargets = << <<"e", "3">>, <<"e", "4">> >>
    /\ selectionBy = "SelectSquare"

\* C13: for every square that is malformed after normalization (not two
\* characters, file outside a-h, or rank outside 1-8), SelectSquare returns
\* false and TryMoveSelectedTo returns false with an error text; in both
\* cases CurrentState and MoveHistoryUci stay as they were, nothing is
\* broadcast and no exporter process is started.
C13_MalformedSquareRejected ==
    [][(/\ lastOp'.op \in {"SelectSquare", "TryMoveSelectedTo"}
        /\ ~WellFormed(NormalizeSquare(lastOp'.arg)))
        => /\ ~lastOp'.ok
           /\ lastOp'.op = "TryMoveSelectedTo" => lastOp'.error # ""
           /\ lastOp'.requests = <<>>
           /\ lastOp'.notified = <<>>
           /\ CurrentState' = CurrentState
           /\ MoveHistoryUci' = MoveHistoryUci
      ]_vars

\* With e2 selected, a move to e9 was refused as an invalid target
C13_Witness ==
    /\ lastOp.op = "TryMoveSelectedTo"
    /\ lastOp.arg = <<"e", "9">>
    /\ lastOp.error = "Target square is invalid."
    /\ CurrentState.SelectedSquare = <<"e", "2">>
    /\ CurrentState.LegalTargets # <<>>

\* With e2 selected, SelectSquare of i1 and of a three-character name changed nothing
C13_WitnessSelect ==
    /\ lastOp.op = "SelectSquare"
    /\ lastOp.arg \in { <<"i", "1">>, <<"e", "2", "e">> }
    /\ ~lastOp.ok
    /\ CurrentState.SelectedSquare = <<"e", "2">>

\* Ascending order of square names: by file, then by rank
SquareBefore(a, b) ==
    \/ Ord(a[1]) < Ord(b[1])
    \/ (a[1] = b[1] /\ Ord(a[2]) < Ord(b[2]))

StrictlyAscending(squares) ==
    \A i \in 1..(Len(squares) - 1) : SquareBefore(squares[i], squares[i + 1])

\* C14: SelectSquare on a well-formed square at which at least one
\* LegalMovesUci entry starts returns true, makes SelectedSquare the
\* normalized square, and makes LegalTargets the destinations of all entries
\* starting there: each destination once, in ascending order, so that the
\* result depends on the set of entries and not on their order.
C14_SelectComputesTargets ==
    [][(/\ lastOp'.op = "SelectSquare"
        /\ WellFormed(NormalizeSquare(lastOp'.arg))
        /\ DestinationsFrom(CurrentState.LegalMovesUci, NormalizeSquare(lastOp'.arg)) # {})
        => LET square == NormalizeSquare(lastOp'.arg)
               destinations == DestinationsFrom(CurrentState.LegalMovesUci, square)
               targets == CurrentState'.LegalTargets
           IN  /\ lastOp'.ok
               /\ CurrentState'.SelectedSquare = square
               /\ Elements(targets) = destinations
               /\ Len(targets) = Cardinality(destinations)
               /\ StrictlyAscending(targets)
      ]_vars

\* e2 selected through the spelling E2: e2e4 and e2e3, listed in that
\* order, gave the targets e3, e4
C14_WitnessSpelling ==
    /\ lastOp.op = "SelectSquare" /\ lastOp.ok
    /\ lastOp.arg = <<"E", "2">>
    /\ CurrentState.SelectedSquare = <<"e", "2">>
    /\ CurrentState.LegalTargets = << <<"e", "3">>, <<"e", "4">> >>

\* e7 selected: four promotion entries, listed with e8 before d8, gave the two
\* targets d8, e8
C14_Witness ==
    /\ lastOp.op = "SelectSquare" /\ lastOp.ok
    /\ CurrentState.SelectedSquare = <<"e", "7">>
    /\ CurrentState.LegalMovesUci = <<e7e8n, e7e8q, e7d8r, e7d8b>>
    /\ CurrentState.LegalTargets = << <<"d", "8">>, <<"e", "8">> >>

\* C15: SelectSquare on a well-formed square at which no LegalMovesUci entry
\* starts returns false, leaves SelectedSquare and LegalTargets empty whatever
\* was selected before, and broadcasts exactly once, the observers reading the
\* cleared state; this also when nothing was selected before the call.
C15_SelectWithoutMovesClears ==
    [][(/\ lastOp'.op = "SelectSquare"
        /\ WellFormed(NormalizeSquare(lastOp'.arg))
        /\ ~\E m \in Elements(CurrentState.LegalMovesUci) :
                SubSeq(m, 1, 2) = NormalizeSquare(lastOp'.arg))
        => /\ ~lastOp'.ok
           /\ CurrentState'.SelectedSquare = <<>>
           /\ CurrentState'.LegalTargets = <<>>
           /\ Len(lastOp'.notified) = 1
           /\ lastOp'.notified[1].state = CurrentState'
      ]_vars

\* Before any refresh has succeeded nothing is selected and no move is known:
\* SelectSquare of a1 still broadcast once
C15_Witness ==
    /\ lastOp.op = "SelectSquare" /\ ~lastOp.ok
    /\ lastOp.arg = <<"a", "1">>
    /\ Len(lastOp.notified) = 1
    /\ syncState = "never"
    /\ CurrentState = DefaultPayload

\* In a position with the moves e2e4, e2e3, b1c3, SelectSquare of a1 broadcast
\* once and left nothing selected
C15_WitnessCleared ==
    /\ lastOp.op = "SelectSquare" /\ ~lastOp.ok
    /\ lastOp.arg = <<"a", "1">>
    /\ Len(lastOp.notified) = 1
    /\ CurrentState.SelectedSquare = <<>>
    /\ CurrentState.LegalMovesUci = <<e2e4, e2e3, b1c3>>
    /\ CurrentState.Fen = "fenA"

\* C16: every call broadcasts at most once.  A call whose refresh succeeds
\* (RefreshState, ResetMatch, TryMoveSelectedTo, the refresh of BeginPlay) and
\* a SelectSquare call on a well-formed square broadcast exactly once, and what
\* the observers read during the broadcast is the state and the move history
\* the call returns with.  CurrentState never changes in a call that does not
\* broadcast.
C16_EveryChangeNotifiedOnce ==
    [][LET notified == lastOp'.notified IN
       /\ Len(notified) <= 1
       /\ (\/ lastOp'.refreshed = "ok"
           \/ (lastOp'.op = "SelectSquare" /\ WellFormed(NormalizeSquare(lastOp'.arg)))
           \/ CurrentState' # CurrentState)
            => /\ Len(notified) = 1
               /\ notified[1] = Snapshot(CurrentState', MoveHistoryUci')
      ]_vars

\* A move was confirmed: one broadcast, in which the observers read the new
\* position and the history with the move in it
C16_Witness ==
    /\ lastOp.op = "TryMoveSelectedTo" /\ lastOp.ok
    /\ Len(lastOp.notified) = 1
    /\ lastOp.notified[1].state.Fen = "fenB"
    /\ lastOp.notified[1].history = <<e2e4>>
    /\ CurrentState.Fen = "fenB"

\* C17: when the exporter's output is a JSON object, the refresh (a call of
\* RefreshState or the refresh inside BeginPlay, ResetMatch or
\* TryMoveSelectedTo) succeeds exactly when the object has fen, turn,
\* is_game_over, status_text and score_text.  When it succeeds, each of
\* SelectedSquare, LegalTargets and LegalMovesUci whose field the object omits
\* is empty afterwards, whatever it held before; when it fails, CurrentState
\* is as it was, and RefreshState and TryMoveSelectedTo report that required
\* fields are missing.
C17_RequiredAndOptionalFields ==
    [][(/\ lastOp'.answer.kind = "Output"
        /\ lastOp'.answer.json # [text |-> "unparsable"])
        => LET doc == lastOp'.answer.json IN
           IF RequiredFields \subseteq DOMAIN doc
           THEN /\ lastOp'.refreshed = "ok"
                /\ ~Has(doc, "selected_square") => CurrentState'.SelectedSquare = <<>>
                /\ ~Has(doc, "legal_targets") => CurrentState'.LegalTargets = <<>>
                /\ ~Has(doc, "legal_moves_uci") => CurrentState'.LegalMovesUci = <<>>
           ELSE /\ lastOp'.refreshed = "failed"
                /\ lastOp'.op \in {"RefreshState", "TryMoveSelectedTo"}
                     => lastOp'.error = "Payload is missing one or more required fields."
                /\ CurrentState' = CurrentState
      ]_vars

\* A move made from a selection with legal moves was confirmed by a response
\* without any of the three optional fields: all three are empty now
C17_Witness ==
    /\ lastOp.op = "TryMoveSelectedTo" /\ lastOp.ok
    /\ lastOp.answer.json = Without(DocA, "legal_moves_uci")
    /\ CurrentState.SelectedSquare = <<>>
    /\ CurrentState.LegalTargets = <<>>
    /\ CurrentState.LegalMovesUci = <<>>
    /\ CurrentState.Fen = "fenA"

\* A response lacking only score_text was refused
C17_WitnessMissingRequired ==
    /\ lastOp.refreshed = "failed"
    /\ lastOp.answer = [kind |-> "Output", json |-> Without(DocA, "score_text")]
    /\ CurrentState.Fen \notin {"", "fenA"}

\* The moves joined by single commas: nothing before the first, nothing after
\* the last
RECURSIVE CommaJoined(_)
CommaJoined(moves) ==
    IF moves = <<>> THEN <<>>
    ELSE IF Len(moves) = 1 THEN moves[1]
    ELSE moves[1] \o <<",">> \o CommaJoined(Tail(moves))

\* The history a call hands to the exporter: ResetMatch the cleared one,
\* TryMoveSelectedTo the current one with the picked move appended, the
\* others the current one
HistorySent(op, history, selectedMove) ==
    IF op = "ResetMatch" THEN <<>>
    ELSE IF op = "TryMoveSelectedTo" THEN Append(history, selectedMove)
    ELSE history

\* C18: every request a call makes to the exporter carries StartFen and the
\* whole move history of that moment in the order the moves were made, joined
\* by single commas, with no space and no comma at the end; the request made
\* inside TryMoveSelectedTo has the newly appended move as its last element;
\* an empty history is sent as the empty string.
C18_RequestCarriesFenAndHistory ==
    [][\A i \in 1..Len(lastOp'.requests) :
        LET request == lastOp'.requests[i]
            sent == HistorySent(lastOp'.op, MoveHistoryUci, lastOp'.selectedMove)
            n == Len(request.moves)
        IN  /\ request.fen = StartFen
            /\ request.moves = CommaJoined(sent)
            /\ sent = <<>> <=> request.moves = <<>>
            /\ \A k \in 1..n : request.moves[k] # " "
            /\ n > 0 => request.moves[n] # ","
            /\ Cardinality({ k \in 1..n : request.moves[k] = "," })
                  = (IF sent = <<>> THEN 0 ELSE Len(sent) - 1)
            /\ lastOp'.op = "TryMoveSelectedTo"
                 => /\ lastOp'.selectedMove # <<>>
                    /\ n >= Len(lastOp'.selectedMove)
                    /\ SubSeq(request.moves, n - Len(lastOp'.selectedMove) + 1, n)
                          = lastOp'.selectedMove
      ]_vars

\* After e2e4, the promotion e7e8q was tried; the exporter could not be run and
\* the move was taken back, but the request had both moves
C18_Witness ==
    /\ lastOp.op = "TryMoveSelectedTo" /\ ~lastOp.ok
    /\ Len(lastOp.requests) = 1
    /\ lastOp.requests[1].moves
         = <<"e", "2", "e", "4", ",", "e", "7", "e", "8", "q">>
    /\ MoveHistoryUci = <<e2e4>>

\* A refresh with no move made sent the empty string
C18_WitnessEmpty ==
    /\ lastOp.op \in {"RefreshState", "ResetMatch"}
    /\ Len(lastOp.requests) = 1
    /\ lastOp.requests[1] = [fen |-> StartFen, moves |-> <<>>]

\* C19: no call starts the exporter more than once: RefreshState, ResetMatch,
\* TryMoveSelectedTo and BeginPlay make at most one request each, also when
\* the refresh fails, and SelectSquare makes none.  A request is made exactly
\* when the call got an answer from the exporter process (its failure to run
\* included); a call that got none made no request.
C19_AtMostOneRequestPerCall ==
    [][/\ Len(lastOp'.requests) <= 1
       /\ lastOp'.op = "SelectSquare" => lastOp'.requests = <<>>
       /\ lastOp'.refreshed = "none" => lastOp'.requests = <<>>
       /\ lastOp'.answer.kind \in {"ExecFailed", "ReadFailed", "Output"}
            <=> Len(lastOp'.requests) = 1
      ]_vars

\* The exporter exited with an error during a move: it was started once, and
\* the move was taken back
C19_Witness ==
    /\ lastOp.op = "TryMoveSelectedTo" /\ ~lastOp.ok
    /\ lastOp.answer.kind = "ExecFailed"
    /\ Len(lastOp.requests) = 1
    /\ lastOp.selectedMove = e2e4
    /\ MoveHistoryUci = <<>>

\* C20 as stated: as long as no refresh has succeeded, also after a failed
\* refresh at BeginPlay, Fen is the configured starting position and nothing
\* is selected.
C20_AsStated ==
    syncState = "never"
        => /\ CurrentState.Fen = StartFen
           /\ CurrentState.SelectedSquare = <<>>
           /\ CurrentState.LegalTargets = <<>>

\* What holds instead: as long as no refresh has succeeded, CurrentState is
\* the default payload, whose Fen is the empty string, and no move was made
C20_DefaultsUntilFirstRefresh ==
    syncState = "never" => (CurrentState = DefaultPayload /\ MoveHistoryUci = <<>>)

\* The refresh of BeginPlay failed and nothing has succeeded since
C20_Witness ==
    /\ lastOp.op = "BeginPlay" /\ lastOp.refreshed = "failed"
    /\ syncState = "never"
    /\ CurrentState.Fen = ""

\* The same state with the game-over flag the other way round
Twin(state) == [state EXCEPT !.bIsGameOver = ~@]

\* What the exporter did in the call just made, to be replayed on the twin
OutcomeOf(answer) == IF answer = NoAnswer THEN [kind |-> "ExecFailed"] ELSE answer

\* C21: bIsGameOver is advisory.  Every SelectSquare and TryMoveSelectedTo
\* call, made instead on the state that differs only in bIsGameOver, with the
\* exporter behaving the same, returns the same result and error, makes the
\* same requests and broadcasts as often, and ends with the same
\* SelectedSquare, LegalTargets and MoveHistoryUci.  With bIsGameOver true a
\* square that has moves is still selected and a listed move still reaches the
\* exporter.
C21_GameOverIsAdvisory ==
    [][/\ lastOp'.op = "SelectSquare"
            => LET t == SelectSquare(Twin(CurrentState), MoveHistoryUci, lastOp'.arg) IN
               /\ t.ok = lastOp'.ok
               /\ Len(t.notified) = Len(lastOp'.notified)
               /\ t.state.SelectedSquare = CurrentState'.SelectedSquare
               /\ t.state.LegalTargets = CurrentState'.LegalTargets
       /\ lastOp'.op = "TryMoveSelectedTo"
            => LET t == TryMoveSelectedTo(Twin(CurrentState), MoveHistoryUci, lastOp'.arg,
                                          OutcomeOf(lastOp'.answer)) IN
               /\ t.ok = lastOp'.ok
               /\ t.error = lastOp'.error
               /\ t.requests = lastOp'.requests
               /\ Len(t.notified) = Len(lastOp'.notified)
               /\ t.history = MoveHistoryUci'
               /\ t.state.SelectedSquare = CurrentState'.SelectedSquare
               /\ t.state.LegalTargets = CurrentState'.LegalTargets
       /\ (/\ CurrentState.bIsGameOver
           /\ lastOp'.op = "SelectSquare"
           /\ WellFormed(NormalizeSquare(lastOp'.arg))
           /\ DestinationsFrom(CurrentState.LegalMovesUci, NormalizeSquare(lastOp'.arg)) # {})
            => lastOp'.ok
       /\ (/\ CurrentState.bIsGameOver
           /\ lastOp'.op = "TryMoveSelectedTo"
           /\ WellFormed(CurrentState.SelectedSquare)
           /\ WellFormed(NormalizeSquare(lastOp'.arg))
           /\ HasMove(CurrentState.LegalMovesUci, CurrentState.SelectedSquare,
                      NormalizeSquare(lastOp'.arg)))
            => (lastOp'.selectedMove # <<>> /\ lastOp'.refreshed # "none")
      ]_vars

\* With the flag set, e2e4 was tried and reached the exporter, which failed:
\* the flag is still set, so it was set when the call was made
C21_Witness ==
    /\ lastOp.op = "TryMoveSelectedTo"
    /\ lastOp.selectedMove = e2e4
    /\ lastOp.refreshed = "failed"
    /\ Len(lastOp.requests) = 1
    /\ CurrentState.bIsGameOver

\* With the flag set, e2 was selected
C21_WitnessSelect ==
    /\ lastOp.op = "SelectSquare" /\ lastOp.ok
    /\ CurrentState.SelectedSquare = <<"e", "2">>
    /\ CurrentState.bIsGameOver

\* The fields of the payload that SelectSquare has no business with
Position(state) ==
    <<state.Fen, state.Turn, state.LegalMovesUci, state.bIsGameOver,
      state.StatusText, state.ScoreText>>

\* C22: SelectSquare, whatever the square and the state, changes at most
\* SelectedSquare and LegalTargets: Fen, Turn, LegalMovesUci, bIsGameOver,
\* StatusText, ScoreText and MoveHistoryUci are as before, and no exporter
\* process is started.
C22_SelectSquareFrame ==
    [][lastOp'.op = "SelectSquare"
        => /\ Position(CurrentState') = Position(CurrentState)
           /\ MoveHistoryUci' = MoveHistoryUci
           /\ lastOp'.requests = <<>>
           /\ \A i \in 1..Len(lastOp'.notified) :
                /\ Position(lastOp'.notified[i].state) = Position(CurrentState)
                /\ lastOp'.notified[i].history = MoveHistoryUci
      ]_vars

\* After the move e2e4, e7 was selected in the position fenB: the position and
\* the history are still there
C22_Witness ==
    /\ lastOp.op = "SelectSquare" /\ lastOp.ok
    /\ CurrentState.SelectedSquare = <<"e", "7">>
    /\ CurrentState.Fen = "fenB"
    /\ CurrentState.Turn = Black
    /\ CurrentState.LegalMovesUci = <<e7e8n, e7e8q, e7d8r, e7d8b>>
    /\ MoveHistoryUci = <<e2e4>>

\* Selections a state may hold when SelectSquare is called: none, e2 or e7
\* with their targets, and a square alone
OtherSelections ==
    { [square |-> <<>>, targets |-> <<>>],
      [square |-> <<"e", "2">>, targets |-> << <<"e", "3">>, <<"e", "4">> >>],
      [square |-> <<"e", "7">>, targets |-> << <<"d", "8">>, <<"e", "8">> >>],
      [square |-> <<"b", "1">>, targets |-> <<>>] }

WithSelection(state, sel) ==
    [state EXCEPT !.SelectedSquare = sel.square, !.LegalTargets = sel.targets]

\* The call just made, made again on the state it left, changes nothing more
SelectAgainSame ==
    lastOp'.op = "SelectSquare"
        => LET again == SelectSquare(CurrentState', MoveHistoryUci', lastOp'.arg) IN
           again.ok = lastOp'.ok /\ again.state = CurrentState'

\* C23 as stated: for every square, SelectSquare made on a state that differs
\* only in SelectedSquare and LegalTargets returns the same value and ends in
\* the same state.
C23_AsStated ==
    [][lastOp'.op = "SelectSquare"
        => \A sel \in OtherSelections :
             LET t == SelectSquare(WithSelection(CurrentState, sel), MoveHistoryUci,
                                   lastOp'.arg) IN
             t.ok = lastOp'.ok /\ t.state = CurrentState'
      ]_vars

\* C23 amended: for a well-formed square, SelectSquare made on a state that
\* differs only in SelectedSquare and LegalTargets returns the same value and
\* ends in the same state.  For a malformed square it returns false from
\* either state and leaves each state as it was, the previous selection
\* included.  In both cases making the same call again changes nothing more.
C23_SelectIgnoresPriorSelection ==
    [][/\ (lastOp'.op = "SelectSquare" /\ WellFormed(NormalizeSquare(lastOp'.arg)))
            => \A sel \in OtherSelections :
                 LET t == SelectSquare(WithSelection(CurrentState, sel), MoveHistoryUci,
                                       lastOp'.arg) IN
                 t.ok = lastOp'.ok /\ t.state = CurrentState'
       /\ (lastOp'.op = "SelectSquare" /\ ~WellFormed(NormalizeSquare(lastOp'.arg)))
            => \A sel \in OtherSelections :
                 LET t == SelectSquare(WithSelection(CurrentState, sel), MoveHistoryUci,
                                       lastOp'.arg) IN
                 /\ ~t.ok /\ ~lastOp'.ok
                 /\ t.state = WithSelection(CurrentState, sel)
                 /\ CurrentState' = CurrentState
       /\ SelectAgainSame
      ]_vars

\* b1 was selected in a position where e2 could have been selected before
C23_Witness ==
    /\ lastOp.op = "SelectSquare" /\ lastOp.ok
    /\ lastOp.arg = <<"b", "1">>
    /\ CurrentState.SelectedSquare = <<"b", "1">>
    /\ CurrentState.LegalTargets = << <<"c", "3">> >>
    /\ e2e4 \in Elements(CurrentState.LegalMovesUci)

\* A malformed square was refused while e2 was selected: the selection stayed
C23_WitnessMalformed ==
    /\ lastOp.op = "SelectSquare" /\ ~lastOp.ok
    /\ lastOp.arg = <<"e", "9">>
    /\ CurrentState.SelectedSquare = <<"e", "2">>

\* The lower-cased, whitespace-trimmed form of an input
Canonical(input) == ToLower(TrimStartAndEnd(input))

\* The call just made gives what the same call with the canonical form of its
\* square gives: result, error, state, history, requests and broadcasts
NormalizedInputSame ==
    /\ lastOp'.op = "SelectSquare"
         => LET t == SelectSquare(CurrentState, MoveHistoryUci, Canonical(lastOp'.arg)) IN
            /\ t.ok = lastOp'.ok
            /\ t.state = CurrentState'
            /\ t.notified = lastOp'.notified
    /\ lastOp'.op = "TryMoveSelectedTo"
         => LET t == TryMoveSelectedTo(CurrentState, MoveHistoryUci, Canonical(lastOp'.arg),
                                       OutcomeOf(lastOp'.answer)) IN
            /\ t.ok = lastOp'.ok
            /\ t.error = lastOp'.error
            /\ t.state = CurrentState'
            /\ t.history = MoveHistoryUci'
            /\ t.requests = lastOp'.requests
            /\ t.notified = lastOp'.notified

C24_WitnessMove ==
    /\ lastOp.op = "TryMoveSelectedTo" /\ lastOp.ok
    /\ lastOp.arg = <<"D", "8">>
    /\ lastOp.selectedMove = e7d8r

\* The exporter sent E7 as the selected square, and from it a move was made
C24_WitnessStoredAsSent ==
    /\ lastOp.op = "TryMoveSelectedTo"
    /\ lastOp.refreshed = "failed"
    /\ lastOp.selectedMove = e7e8q
    /\ CurrentState.SelectedSquare = <<"E", "7">>

\* Every request of the call just made asks for a replay that is legal move by
\* move from the starting position
RequestsLegal ==
    \A i \in 1..Len(lastOp'.requests) :
        ReplayLegal(SplitCsv(lastOp'.requests[i].moves, <<>>))

\* C25: with the deterministic exporter, every history sent to it is legal
\* step by step: each move is among the legal moves the exporter returns for
\* the moves before it; also in a TryMoveSelectedTo that follows a ResetMatch
\* whose refresh failed.
C25_SentHistoriesLegal == [][RequestsLegal]_vars

\* What holds instead: the histories sent are legal as long as no ResetMatch
\* has failed since the last successful refresh
C25_LegalUnlessResetFailed == [][syncState # "resetFailed" => RequestsLegal]_vars

\* After a failed ResetMatch, Black's e7e8q, picked from the position kept from
\* before the reset, was sent as the first move of the game
C25_Witness ==
    /\ lastOp.op = "TryMoveSelectedTo" /\ ~lastOp.ok
    /\ lastOp.selectedMove = e7e8q
    /\ Len(lastOp.requests) = 1
    /\ lastOp.requests[1].moves = e7e8q
    /\ syncState = "resetFailed"
    /\ MoveHistoryUci = <<>>

\* Whether Turn spells "white", in any mixture of upper and lower case
SpellsWhite(Turn) ==
    /\ Len(Turn) = 5
    /\ Turn[1] \in {"w", "W"} /\ Turn[2] \in {"h", "H"} /\ Turn[3] \in {"i", "I"}
    /\ Turn[4] \in {"t", "T"} /\ Turn[5] \in {"e", "E"}

\* C26: once a director with a game-state component assigned has run its
\* BeginPlay, in every state between two operations the camera's target eye is
\* WhiteEye and the white side's light has ActiveIntensity (the black side's
\* PassiveIntensity) if and only if CurrentState.Turn spells "white" in any
\* case; for every other Turn, the empty default included, it is BlackEye and
\* the black side's light that is active.  This holds whether the director
\* began play before or after the component's first refresh.
C26_DirectorsTrackTurn ==
    /\ (camera.begun /\ camera.GameStateComponent # "null")
         => camera.TargetEye = (IF SpellsWhite(CurrentState.Turn) THEN "WhiteEye"
                                ELSE "BlackEye")
    /\ (lighting.begun /\ lighting.GameStateComponent # "null")
         => lighting.lights =
              (IF SpellsWhite(CurrentState.Turn)
               THEN [WhiteSideLight |-> "ActiveIntensity", BlackSideLight |-> "PassiveIntensity"]
               ELSE [WhiteSideLight |-> "PassiveIntensity", BlackSideLight |-> "ActiveIntensity"])

\* A confirmed move made it Black's turn: both directors are on Black's side
C26_Witness ==
    /\ camera.bound /\ lighting.bound
    /\ lastOp.op = "TryMoveSelectedTo" /\ lastOp.ok
    /\ CurrentState.Turn = Black
    /\ camera.TargetEye = "BlackEye"
    /\ lighting.lights.BlackSideLight = "ActiveIntensity"

\* The exporter spelled the turn WHITE: both directors are on White's side
C26_WitnessCapitals ==
    /\ camera.bound /\ lighting.bound
    /\ CurrentState.Turn = <<"W", "H", "I", "T", "E">>
    /\ camera.TargetEye = "WhiteEye"
    /\ lighting.lights.WhiteSideLight = "ActiveIntensity"

\* The component's first refresh failed: Turn is empty, the directors are on
\* Black's side
C26_WitnessEmptyTurn ==
    /\ camera.bound /\ lighting.bound
    /\ begun /\ syncState = "never"
    /\ CurrentState.Turn = <<>>
    /\ camera.TargetEye = "BlackEye"

\* Whether a location lies on the 8x8 board: within four tiles of the origin
\* on both axes, the lower edge included
OnBoard(actor, location) ==
    /\ location.X - actor.BoardOrigin.X >= -8 * actor.TileSize
    /\ location.X - actor.BoardOrigin.X < 8 * actor.TileSize
    /\ location.Y - actor.BoardOrigin.Y >= -8 * actor.TileSize
    /\ location.Y - actor.BoardOrigin.Y < 8 * actor.TileSize

\* The tile a location on the board lies in, counted from the a1 corner
TileIndex(offset, TileSize) ==
    CHOOSE k \in 0..7 :
        offset >= (2 * k - 8) * TileSize /\ offset < (2 * k - 6) * TileSize

SquareAt(actor, location) ==
    << FileNames[TileIndex(location.X - actor.BoardOrigin.X, actor.TileSize) + 1],
       RankNames[TileIndex(location.Y - actor.BoardOrigin.Y, actor.TileSize) + 1] >>

\* A step that is a click: it leaves a new click record or makes one of the
\* two calls only clicks make here
ClickStep ==
    \/ lastClick' # lastClick
    \/ (lastOp' # lastOp /\ lastOp'.op \in {"SelectSquare", "TryMoveSelectedTo"})

\* C27: a click beside the board, or on a board actor without game-state
\* component, returns false with an error and calls nothing: the component's
\* state, history and last call are as before.  A click on a square calls
\* TryMoveSelectedTo with that square exactly when SelectedSquare is not empty
\* and the square is in LegalTargets, and SelectSquare with it otherwise, and
\* returns what the call returns.  Hence a click on a target of a square
\* selected by a click makes one TryMoveSelectedTo call, which picks a move
\* starting with the selected square and the target and sends at most one
\* request, carrying that move last; exactly one unless the export script is
\* missing.
C27_ClickDispatch ==
    [][ClickStep =>
        LET location == lastClick'.location IN
        IF board.GameStateComponent = "null" \/ ~OnBoard(board, location)
        THEN /\ lastClick'.dispatched = "None"
             /\ ~lastClick'.ok /\ lastClick'.error # ""
             /\ UNCHANGED <<CurrentState, MoveHistoryUci, lastOp>>
        ELSE LET square == SquareAt(board, location)
                 move == /\ CurrentState.SelectedSquare # <<>>
                         /\ square \in Elements(CurrentState.LegalTargets)
             IN  /\ lastClick'.square = square
                 /\ lastClick'.dispatched
                      = (IF move THEN "TryMoveSelectedTo" ELSE "SelectSquare")
                 /\ lastOp'.op = lastClick'.dispatched
                 /\ lastOp'.arg = square
                 /\ lastClick'.ok = lastOp'.ok
                 /\ (move /\ selectionBy = "SelectSquare")
                      => /\ Len(lastOp'.selectedMove) >= 4
                         /\ SubSeq(lastOp'.selectedMove, 1, 4)
                              = CurrentState.SelectedSquare \o square
                         /\ Len(lastOp'.requests) <= 1
                         /\ lastOp'.answer.kind # "ScriptMissing"
                              => Len(lastOp'.requests) = 1
                         /\ \A i \in 1..Len(lastOp'.requests) :
                              lastOp'.requests[i].moves
                                = CommaJoined(Append(MoveHistoryUci, lastOp'.selectedMove))
      ]_vars

\* After a click on e2, a click on e4 made the move e2e4
C27_Witness ==
    /\ lastClick.dispatched = "TryMoveSelectedTo" /\ lastClick.ok
    /\ lastClick.square = <<"e", "4">>
    /\ lastOp.selectedMove = e2e4
    /\ Len(lastOp.requests) = 1
    /\ MoveHistoryUci = <<e2e4>>

\* A click beside the board while e2 was selected
C27_WitnessOutside ==
    /\ lastClick.dispatched = "None"
    /\ lastClick.error = "Click is outside board bounds."
    /\ CurrentState.SelectedSquare = <<"e", "2">>

\* A click on a board actor without component
C27_WitnessNoComponent ==
    /\ board.GameStateComponent = "null"
    /\ lastClick.dispatched = "None"
    /\ lastClick.location = Vector(100, -500, 0)
    /\ begun

\* e4 is listed in LegalTargets by the exporter but nothing is selected: the
\* click on e4 went to SelectSquare
C27_WitnessTargetsWithoutSelection ==
    /\ lastClick.dispatched = "SelectSquare"
    /\ lastClick.square = <<"e", "4">>
    /\ CurrentState.Fen = "fenC"

\* C28: on a board with a positive TileSize, for every valid square in any
\* spelling, WorldToSquare applied to what SquareToWorld returned succeeds and
\* gives the square in its lower-case, trimmed form, whatever the height
\* offset.  WorldToSquare fails exactly for the locations that do not lie on
\* the 8x8 board, and gives the square of the tile otherwise.  SquareToWorld
\* of an invalid square returns BoardOrigin.
C28_MappingRoundTrips ==
    /\ (mapped.call = "RoundTrip" /\ WellFormed(Canonical(mapped.Square)))
         => (mapped.ok /\ mapped.OutSquare = Canonical(mapped.Square))
    /\ mapped.call = "WorldToSquare"
         => /\ mapped.ok <=> OnBoard(board, mapped.location)
            /\ mapped.ok => mapped.OutSquare = SquareAt(board, mapped.location)
    /\ (mapped.call \in {"SquareToWorld", "RoundTrip"} /\ ~WellFormed(Canonical(mapped.Square)))
         => mapped.location = board.BoardOrigin

\* On a board of tile size 3 away from the origin, " d5 " came back as d5
C28_Witness ==
    /\ mapped.call = "RoundTrip"
    /\ mapped.Square = <<" ", "d", "5", " ">>
    /\ mapped.OutSquare = <<"d", "5">>
    /\ mapped.HeightOffset = 4
    /\ board.TileSize = 3
    /\ board.BoardOrigin = Vector(5, -3, 2)

\* A location one half unit left of the board of the default tile size
C28_WitnessOutside ==
    /\ mapped.call = "WorldToSquare" /\ ~mapped.ok
    /\ board = DefaultBoard
    /\ mapped.location.X = -8 * DefaultTileSize - 1
    /\ mapped.location.Y = 0

\* An invalid square gave the origin of a board that is not at zero
C28_WitnessInvalid ==
    /\ mapped.call = "SquareToWorld"
    /\ mapped.Square = <<"e", "9">>
    /\ mapped.HeightOffset = 4
    /\ mapped.location = Vector(5, -3, 2)

====
